---- MODULE Spec2Model ----
(***************************************************************************)
(* Model of the asynchronous crawl-and-score pipeline of bankier_scraper   *)
(* (Bankier_sentyment/Antigrav_sentiment.py; Fundamental/                  *)
(* fundamental_screen.py carries the same fetch_page / process_thread /    *)
(* process_company code).                                                  *)
(*                                                                         *)
(* Texts and URLs are TLA+ strings (Len, \o and SubSeq work on them).      *)
(* The parser accepts ASCII only, so the Polish letters of the source are  *)
(* written with one spare ASCII character each:                            *)
(*   a-ogonek "@"   c-acute "^"   e-ogonek "&"   l-stroke "|"              *)
(*   o-acute  "*"   s-acute "$"   z-dot    "~"   z-acute "%"               *)
(* An HTML document is the record the parser's selectors see:              *)
(*   rows  - <<[title, href, date]>>  table.threadsList tbody tr           *)
(*   nodes - <<[cls, text]>>          the div.* post containers            *)
(*   links - <<href>>                 nav.pagination a[href]               *)
(***************************************************************************)
EXTENDS Integers, Sequences, FiniteSets, TLC

VARIABLES companies, web, maxPages, budget, sem, held, co, th, results, mainpc, scoring

vars == <<companies, web, maxPages, budget, sem, held, co, th, results, mainpc, scoring>>

(***************************************************************************)
(* Configuration constants of the source.                                  *)
(***************************************************************************)
BANKIER_BASE_URL == "https://www.bankier.pl"
MAX_CONCURRENT_REQUESTS == 5
MAX_RETRIES == 3
MAX_PAGES_PER_THREAD == 5
MAX_POSTS_PER_THREAD == 100
MAX_THREAD_TEXT_CHARS == 20000
DATE_LIMIT_DAYS == 5

(***************************************************************************)
(* Python's None, and the missing attribute / node of a parsed document.   *)
(***************************************************************************)
None == [none |-> TRUE]

\* the body of a response that is the empty string
EmptyBody == [rows |-> <<>>, nodes |-> <<>>, links |-> <<>>, empty |-> TRUE]

\* Python's `not html` for the html that fetch_page returned: None or ""
Falsy(html) == html = None \/ html.empty

\* F(v), the expression v being evaluated a single time (a local variable)
Once(v, F(_)) == CHOOSE r \in {F(x) : x \in {v}} : TRUE

(***************************************************************************)
(* String primitives.                                                      *)
(***************************************************************************)
Char(s, i) == SubSeq(s, i, i)

RECURSIVE Rep(_, _)
Rep(s, n) ==
    IF n <= 0 THEN ""
    ELSE IF n = 1 THEN s
    ELSE Once(Rep(s, n \div 2), LAMBDA h : IF n % 2 = 0 THEN h \o h ELSE h \o h \o s)

\* s[:n]
Prefix(s, n) == Once(s, LAMBDA x : IF Len(x) <= n THEN x ELSE SubSeq(x, 1, n))

\* needle in hay
Contains(hay, needle) ==
    \E i \in 1..(Len(hay) - Len(needle) + 1) :
        SubSeq(hay, i, i + Len(needle) - 1) = needle

StartsWith(s, p) == Len(s) >= Len(p) /\ SubSeq(s, 1, Len(p)) = p

IsSpace(c) == c \in {" ", "\t", "\n", "\r"}

IsDigit(c) == c \in {"0", "1", "2", "3", "4", "5", "6", "7", "8", "9"}

DigitVal(c) ==
    CASE c = "0" -> 0 [] c = "1" -> 1 [] c = "2" -> 2 [] c = "3" -> 3
      [] c = "4" -> 4 [] c = "5" -> 5 [] c = "6" -> 6 [] c = "7" -> 7
      [] c = "8" -> 8 [] c = "9" -> 9

\* int of the first n characters of a string of decimal digits
RECURSIVE DigitsValue(_, _)
DigitsValue(s, n) ==
    IF n = 0 THEN 0 ELSE 10 * DigitsValue(s, n - 1) + DigitVal(Char(s, n))

\* int(s) of a string of decimal digits
ParseInt(s) == Once(s, LAMBDA x : DigitsValue(x, Len(x)))

\* the length of the run of whitespace that starts at position i
RECURSIVE SpaceRun(_, _)
SpaceRun(s, i) ==
    IF i <= Len(s) /\ IsSpace(Char(s, i)) THEN 1 + SpaceRun(s, i + 1) ELSE 0

\* the length of the run of whitespace that ends at position i
RECURSIVE SpaceRunBack(_, _)
SpaceRunBack(s, i) ==
    IF i >= 1 /\ IsSpace(Char(s, i)) THEN 1 + SpaceRunBack(s, i - 1) ELSE 0

\* str.strip()
LStrip(s) == Once(s, LAMBDA x : SubSeq(x, 1 + SpaceRun(x, 1), Len(x)))

RStrip(s) == Once(s, LAMBDA x : SubSeq(x, 1, Len(x) - SpaceRunBack(x, Len(x))))

Strip(s) == LStrip(RStrip(s))

\* two collapsed halves put together: a blank ending the left one and a blank
\* starting the right one are one run
Glue(l, r) ==
    IF Len(l) > 0 /\ Len(r) > 0 /\ Char(l, Len(l)) = " " /\ Char(r, 1) = " "
    THEN l \o SubSeq(r, 2, Len(r)) ELSE l \o r

\* re.sub(r"\s+", " ", s): every maximal run of whitespace becomes one blank
RECURSIVE CollapseWs(_)
CollapseWs(s) ==
    Once(s, LAMBDA x :
        IF Len(x) = 0 THEN ""
        ELSE IF Len(x) = 1 THEN (IF IsSpace(x) THEN " " ELSE x)
        ELSE Once(CollapseWs(SubSeq(x, 1, Len(x) \div 2)), LAMBDA l :
                 Once(CollapseWs(SubSeq(x, Len(x) \div 2 + 1, Len(x))), LAMBDA r :
                     Glue(l, r))))

UpperChars == "ABCDEFGHIJKLMNOPQRSTUVWXYZ"
LowerChars == "abcdefghijklmnopqrstuvwxyz"

UpperSet == {Char(UpperChars, i) : i \in 1..Len(UpperChars)}

LowerChar(c) ==
    IF c \in UpperSet
    THEN Char(LowerChars, CHOOSE i \in 1..Len(UpperChars) : Char(UpperChars, i) = c)
    ELSE c

\* str.lower()
RECURSIVE Lower(_)
Lower(s) ==
    Once(s, LAMBDA x :
        IF Len(x) = 0 THEN ""
        ELSE IF Len(x) = 1 THEN LowerChar(x)
        ELSE Lower(SubSeq(x, 1, Len(x) \div 2))
             \o Lower(SubSeq(x, Len(x) \div 2 + 1, Len(x))))

\* " ".join(seq)
RECURSIVE Join(_)
Join(seq) ==
    Once(seq, LAMBDA x :
        IF Len(x) = 0 THEN ""
        ELSE IF Len(x) = 1 THEN x[1]
        ELSE Join(SubSeq(x, 1, Len(x) \div 2)) \o " "
             \o Join(SubSeq(x, Len(x) \div 2 + 1, Len(x))))

(***************************************************************************)
(* fetch_page: one call is the record                                      *)
(*   pc      "get"   - awaiting client.get                                 *)
(*           "sleep" - awaiting asyncio.sleep (503 backoff or the flat     *)
(*                     delay of the except branch)                         *)
(*           "ret"   - returned, the value in ret                          *)
(*   attempt the loop variable of `for attempt in range(MAX_RETRIES)`      *)
(*   log     what the call did so far: the answer of every GET and every   *)
(*           sleep (base = the deterministic part of the delay)            *)
(* A response of the HTTP client is [raised, status_code, text].           *)
(***************************************************************************)
GetEvent(resp) ==
    [ev |-> "get", raised |-> resp.raised, status |-> resp.status_code,
     text |-> resp.text, base |-> 0]

SleepEvent(b) ==
    [ev |-> "sleep", raised |-> FALSE, status |-> 0, text |-> None, base |-> b]

RECURSIVE Pow2(_)
Pow2(n) == IF n = 0 THEN 1 ELSE 2 * Pow2(n - 1)

\* a loop that runs one attempt too many
InRangeLoose(attempt) == attempt <= MAX_RETRIES

\* `for attempt in range(MAX_RETRIES)`: is there an iteration for this value
InRange(attempt) == attempt < MAX_RETRIES

\* the except branch: `if attempt < MAX_RETRIES - 1`
NotLastAttempt(attempt) == attempt < MAX_RETRIES - 1

\* enter the loop body for `attempt`, or fall out of the loop to `return None`
FetchIterate(url, attempt, log) ==
    IF InRange(attempt)
    THEN [pc |-> "get", url |-> url, attempt |-> attempt, log |-> log, ret |-> None]
    ELSE [pc |-> "ret", url |-> url, attempt |-> attempt, log |-> log, ret |-> None]

\* the call of fetch_page(client, url) up to its first await
FetchStart(url) == FetchIterate(url, 0, <<>>)

\* a non-200, non-503 status handled like a transport error: sleep and retry
OtherStatusRetry(fp, log) == [fp EXCEPT !.pc = "sleep", !.log = Append(log, SleepEvent(1))]

\* what a non-200, non-503 status does
OtherStatus(fp, log) == [fp EXCEPT !.pc = "ret", !.log = log, !.ret = None]

\* a call that backs off and retries on every status but 200
FetchOnResponseRetryAll(fp, resp) ==
    LET log == Append(fp.log, GetEvent(resp))
    IN  IF resp.raised
        THEN IF NotLastAttempt(fp.attempt)
             THEN [fp EXCEPT !.pc = "sleep", !.log = Append(log, SleepEvent(1))]
             ELSE [fp EXCEPT !.pc = "ret", !.log = log, !.ret = None]
        ELSE IF resp.status_code = 200
             THEN [fp EXCEPT !.pc = "ret", !.log = log, !.ret = resp.text]
        ELSE [fp EXCEPT !.pc = "sleep",
                        !.log = Append(log, SleepEvent(Pow2(fp.attempt)))]

\* client.get completes (or raises) while the call awaits it
FetchOnResponse(fp, resp) ==
    LET log == Append(fp.log, GetEvent(resp))
    IN  IF resp.raised
        THEN IF NotLastAttempt(fp.attempt)
             THEN [fp EXCEPT !.pc = "sleep", !.log = Append(log, SleepEvent(1))]
             ELSE [fp EXCEPT !.pc = "ret", !.log = log, !.ret = None]
        ELSE IF resp.status_code = 200
             THEN [fp EXCEPT !.pc = "ret", !.log = log, !.ret = resp.text]
        ELSE IF resp.status_code = 503
             THEN [fp EXCEPT !.pc = "sleep",
                             !.log = Append(log, SleepEvent(Pow2(fp.attempt)))]
        ELSE OtherStatus(fp, log)

\* asyncio.sleep completes: `continue` / end of the except branch
FetchOnWake(fp) == FetchIterate(fp.url, fp.attempt + 1, fp.log)

\* the record kept of a finished call
CallRecord(fp) == [url |-> fp.url, log |-> fp.log, ret |-> fp.ret]

Idle == [pc |-> "idle", url |-> "", attempt |-> 0, log |-> <<>>, ret |-> None]

(***************************************************************************)
(* Parsing of a thread page: extract_posts_from_html and the pagination    *)
(* links of process_thread.                                                *)
(***************************************************************************)
Selectors == <<"div.post-content", "div.postContent", "div.post__content",
               "div.message", "div.post-body">>

\* tree.css(sel): the nodes a selector matches, in document order
Css(html, sel) == SelectSeq(html.nodes, LAMBDA n : sel \in n.cls)

\* `if len(text) > 15`
NotNoise(text) == Len(text) > 15

\* the texts list: selector by selector, every match that is not noise
RECURSIVE CandidateTexts(_, _)
CandidateTexts(html, k) ==
    IF k > Len(Selectors) THEN <<>>
    ELSE Once(SelectSeq(Css(html, Selectors[k]), LAMBDA n : NotNoise(n.text)),
              LAMBDA found : [i \in 1..Len(found) |-> found[i].text])
         \o CandidateTexts(html, k + 1)

\* t_clean = re.sub(r"\s+", " ", t).strip()
Clean(t) == Strip(CollapseWs(t))

\* seen when the dedup loop reaches texts[k]: the clean forms met before
Seen(cleaned, k) == {cleaned[j] : j \in 1..(k - 1)} \ {""}

\* a dedup loop that only drops the empty texts
FirstSeenNotEmpty(cleaned, k) == cleaned[k] # ""

\* `if t_clean and t_clean not in seen` for texts[k]
FirstSeen(cleaned, k) == cleaned[k] # "" /\ cleaned[k] \notin Seen(cleaned, k)

\* t_clean of every text
CleanAll(texts) == [k \in 1..Len(texts) |-> Clean(texts[k])]

\* the positions whose text the dedup loop appends to unique
FirstSeenAt(cleaned) ==
    SelectSeq([k \in 1..Len(cleaned) |-> k], LAMBDA k : FirstSeen(cleaned, k))

\* unique after the dedup loop
Dedup(texts) ==
    Once(Once(texts, CleanAll), LAMBDA cleaned :
        Once(FirstSeenAt(cleaned), LAMBDA kept :
            [i \in 1..Len(kept) |-> cleaned[kept[i]]]))

extract_posts_from_html(html) ==
    IF Falsy(html) THEN <<>> ELSE Dedup(CandidateTexts(html, 1))

\* urllib.parse.urljoin(BANKIER_BASE_URL, href); the base has no path
urljoin(base, href) ==
    IF href = "" THEN base
    ELSE IF StartsWith(href, "http://") \/ StartsWith(href, "https://") THEN href
    ELSE IF StartsWith(href, "//") THEN "https:" \o href
    ELSE IF StartsWith(href, "/") THEN base \o href
    ELSE base \o "/" \o href

\* the length of the run of digits that starts at position i
RECURSIVE DigitRun(_, _)
DigitRun(s, i) ==
    IF i <= Len(s) /\ IsDigit(Char(s, i)) THEN 1 + DigitRun(s, i + 1) ELSE 0

\* does r',(\d+)\.html' match at position i
PageMatchAt(link, i) ==
    LET d == DigitRun(link, i + 1)
    IN  /\ Char(link, i) = ","
        /\ d >= 1
        /\ i + d + 5 <= Len(link)
        /\ SubSeq(link, i + d + 1, i + d + 5) = ".html"

\* re.search(r',(\d+)\.html', link) finds something
HasPageMatch(link) == \E i \in 1..Len(link) : PageMatchAt(link, i)

\* int(page_match.group(1)) of the leftmost match
PageNum(link) ==
    LET i == CHOOSE i \in 1..Len(link) :
                 PageMatchAt(link, i) /\ \A j \in 1..(i - 1) : ~PageMatchAt(link, j)
    IN  ParseInt(SubSeq(link, i + 1, i + DigitRun(link, i + 1)))

\* pagination_links
PaginationLinks(html) ==
    [i \in 1..Len(html.links) |-> urljoin(BANKIER_BASE_URL, html.links[i])]

\* `if link and link != url` and the link has a page number
ValidLink(link, url) == link # "" /\ link # url /\ HasPageMatch(link)

\* valid_pages, in the order of the links
ValidPages(links, url) ==
    Once(SelectSeq(links, LAMBDA l : ValidLink(l, url)), LAMBDA kept :
        [i \in 1..Len(kept) |-> [page_num |-> PageNum(kept[i]), link |-> kept[i]]])

\* list.sort(key=lambda x: x[0]): stable, ascending by page number
RECURSIVE InsertSorted(_, _)
InsertSorted(sorted, x) ==
    Once(sorted, LAMBDA so :
        IF Len(so) = 0 THEN <<x>>
        ELSE IF so[Len(so)].page_num <= x.page_num THEN Append(so, x)
        ELSE Append(InsertSorted(SubSeq(so, 1, Len(so) - 1), x), so[Len(so)]))

\* valid_pages left in the order of the links
SortPagesSkipped(vp) == vp

RECURSIVE SortPages(_)
SortPages(vp) ==
    Once(vp, LAMBDA v :
        IF Len(v) = 0 THEN <<>>
        ELSE InsertSorted(SortPages(SubSeq(v, 1, Len(v) - 1)), v[Len(v)]))

\* a slice valid_pages[:cap]
SliceLenWhole(n, cap) == IF n < cap THEN n ELSE cap

\* how many entries valid_pages[:cap - 1] keeps
SliceLen(n, cap) == IF n < cap - 1 THEN n ELSE cap - 1

\* pages_to_fetch = [link for _, link in valid_pages[:cap - 1]]
PagesToFetch(html, url, cap) ==
    Once(SortPages(ValidPages(PaginationLinks(html), url)), LAMBDA sorted :
        [i \in 1..SliceLen(Len(sorted), cap) |-> sorted[i].link])

\* may one more page be fetched: `if len(posts) >= MAX_POSTS_PER_THREAD: break`
BelowPostCap(posts) == Len(posts) < MAX_POSTS_PER_THREAD

\* (thread['title'] + " " + " ".join(posts)).strip()[:MAX_THREAD_TEXT_CHARS]
CombinedText(title, posts) ==
    Prefix(Strip(title \o " " \o Join(posts)), MAX_THREAD_TEXT_CHARS)

\* a failed first fetch that gives the empty text
TitleDropped(title) == ""

\* `return thread['title']` after a failed first fetch
TitleOnly(title) == title

(***************************************************************************)
(* parse_thread_date.  A datetime is the number of seconds since           *)
(* 1970-01-01 00:00:00; the result is [ok, t], ok = FALSE standing for     *)
(* None.  datetime.now() is the instant Now throughout a run.              *)
(***************************************************************************)
DaysFromCivil(y, m, d) ==
    LET yy  == IF m <= 2 THEN y - 1 ELSE y
        era == yy \div 400
        yoe == yy - era * 400
        mp  == IF m > 2 THEN m - 3 ELSE m + 9
        doy == (153 * mp + 2) \div 5 + d - 1
        doe == yoe * 365 + yoe \div 4 - yoe \div 100 + doy
    IN  era * 146097 + doe - 719468

IsLeap(y) == (y % 4 = 0 /\ y % 100 # 0) \/ y % 400 = 0

DaysInMonth(y, m) ==
    IF m = 2 THEN (IF IsLeap(y) THEN 29 ELSE 28)
    ELSE IF m \in {4, 6, 9, 11} THEN 30 ELSE 31

\* 2024-01-22 12:00:30
Now == DaysFromCivil(2024, 1, 22) * 86400 + 12 * 3600 + 30

\* DATE_LIMIT = datetime.now() - timedelta(days=DATE_LIMIT_DAYS)
DATE_LIMIT == Now - DATE_LIMIT_DAYS * 86400

NoDate == [ok |-> FALSE, t |-> 0]

CharAt(s, i) == IF i >= 1 /\ i <= Len(s) THEN Char(s, i) ELSE ""

DigitsAt(s, i, n) == \A k \in 0..(n - 1) : IsDigit(CharAt(s, i + k))

\* (\d{1,2}):(\d{2}) at position i, with two and with one hour digit
Time2At(s, i) == DigitsAt(s, i, 2) /\ CharAt(s, i + 2) = ":" /\ DigitsAt(s, i + 3, 2)

Time1At(s, i) == DigitsAt(s, i, 1) /\ CharAt(s, i + 1) = ":" /\ DigitsAt(s, i + 2, 2)

TimeAt(s, i) == Time2At(s, i) \/ Time1At(s, i)

HasTime(s) == \E i \in 1..Len(s) : TimeAt(s, i)

\* the groups of the leftmost match of re.search(r'(\d{1,2}):(\d{2})', s)
TimeGroups(s, i) ==
    IF Time2At(s, i)
    THEN [hour |-> ParseInt(SubSeq(s, i, i + 1)), minute |-> ParseInt(SubSeq(s, i + 3, i + 4))]
    ELSE [hour |-> ParseInt(SubSeq(s, i, i)), minute |-> ParseInt(SubSeq(s, i + 2, i + 3))]

TimeMatch(s) ==
    Once(s, LAMBDA x :
        Once(CHOOSE i \in 1..Len(x) : TimeAt(x, i) /\ \A j \in 1..(i - 1) : ~TimeAt(x, j),
             LAMBDA i : TimeGroups(x, i)))

\* day.replace(hour=h, minute=m, second=0, microsecond=0); ValueError gives None
ReplaceTime(t, h, m) ==
    IF h > 23 \/ m > 59 THEN NoDate
    ELSE [ok |-> TRUE, t |-> (t - (t % 86400)) + h * 3600 + m * 60]

\* the branch of a relative marker, `day` being now or yesterday
RelativeDate(s, day) ==
    IF HasTime(s)
    THEN LET tm == TimeMatch(s) IN ReplaceTime(day, tm.hour, tm.minute)
    ELSE [ok |-> TRUE, t |-> day]

\* (\d{4}-\d{2}-\d{2})\s+(\d{1,2}):(\d{2}) at position i
AbsAt(s, i) ==
    /\ DigitsAt(s, i, 4) /\ CharAt(s, i + 4) = "-"
    /\ DigitsAt(s, i + 5, 2) /\ CharAt(s, i + 7) = "-"
    /\ DigitsAt(s, i + 8, 2)
    /\ SpaceRun(s, i + 10) >= 1
    /\ TimeAt(s, i + 10 + SpaceRun(s, i + 10))

HasAbs(s) == \E i \in 1..Len(s) : AbsAt(s, i)

\* datetime.strptime(..., '%Y-%m-%d %H:%M') of the leftmost match
AbsoluteDate(s) ==
    LET i  == CHOOSE i \in 1..Len(s) : AbsAt(s, i) /\ \A j \in 1..(i - 1) : ~AbsAt(s, j)
        y  == ParseInt(SubSeq(s, i, i + 3))
        m  == ParseInt(SubSeq(s, i + 5, i + 6))
        d  == ParseInt(SubSeq(s, i + 8, i + 9))
        tm == TimeMatch(SubSeq(s, i + 10 + SpaceRun(s, i + 10), Len(s)))
    IN  IF y < 1 \/ m < 1 \/ m > 12 \/ d < 1 \/ d > DaysInMonth(y, m)
           \/ tm.hour > 23 \/ tm.minute > 59
        THEN NoDate
        ELSE [ok |-> TRUE,
              t  |-> DaysFromCivil(y, m, d) * 86400 + tm.hour * 3600 + tm.minute * 60]

\* the branches of parse_thread_date, s being date_str.strip() and lo s.lower()
DateOf(s, lo) ==
    IF Contains(lo, "dzi$") \/ Contains(lo, "dzisiaj")
    THEN RelativeDate(s, Now)
    ELSE IF Contains(lo, "wczoraj")
    THEN RelativeDate(s, Now - 86400)
    ELSE IF Contains(s, "-") /\ Contains(s, ":") /\ HasAbs(s)
    THEN AbsoluteDate(s)
    ELSE NoDate

parse_thread_date(date_str) ==
    IF date_str = "" THEN NoDate
    ELSE Once(Strip(date_str), LAMBDA s : Once(Lower(s), LAMBDA lo : DateOf(s, lo)))

\* `if thread_date and thread_date >= DATE_LIMIT`
Recent(date_str) ==
    Once(parse_thread_date(date_str), LAMBDA d : d.ok /\ d.t >= DATE_LIMIT)

(***************************************************************************)
(* analyze_sentiment and the rollup of process_company.                    *)
(***************************************************************************)
positive_keywords ==
    {"wzrost", "zysk", "dobr", "super", "$wietn", "pozytywn", "sukces", "rekord",
     "kupuj", "kupi^", "kupuj&", "hold", "trzyma", "rosn@^", "ro$nie", "g*r&", "cel",
     "plus", "zyskown", "mocn", "bullish", "bull", "rally", "boom", "bra^", "d|ugi",
     "pi&knie", "fajnie", "solidn", "zbiera", "wystrza|", "wz*r", "rekomenduj",
     "okazja", "tanio", "warte", "silny", "dynamiczny", "perspektywy", "wzorem",
     "rakieta", "odpa|", "pompa", "to the moon", "dokupuj&", "long", "L"}

negative_keywords ==
    {"spadek", "strat", "kiepsk", "s|ab", "negatywn", "kryzys", "problem",
     "sprzeda", "sprzedaj", "sprzedam", "sell", "ucieka", "d*|", "minus", "short",
     "trac&", "gubi", "bearish", "bear", "crash", "dno", "taniec", "p|acz",
     "najgorszy", "dziadostwo", "gniot", "wsp*|czuj", "zawiedziony", "dramat",
     "zmarnowany", "zawalisz", "blada", "panika", "zagro~enie", "ryzyko", "strach",
     "bankructwo", "utopiony", "sypa^", "sypie", "krach", "S", "wa|a"}

\* sum(1 for word in keywords if word in text_lower)
KeywordScore(keywords, text_lower) ==
    Cardinality({word \in keywords : Contains(text_lower, word)})

\* a ladder on which equal counts are labelled positive
SentimentTiesPositive(pos_score, neg_score) ==
    IF pos_score >= neg_score
    THEN [label |-> "POZYTYWNY", score |-> pos_score - neg_score]
    ELSE [label |-> "NEGATYWNY", score |-> neg_score - pos_score]

\* a ladder whose score is the signed difference of the counts
SentimentSigned(pos_score, neg_score) ==
    IF pos_score > neg_score
    THEN [label |-> "POZYTYWNY", score |-> pos_score - neg_score]
    ELSE IF neg_score > pos_score
    THEN [label |-> "NEGATYWNY", score |-> pos_score - neg_score]
    ELSE [label |-> "NEUTRALNY", score |-> 0]

\* the label and score of the two keyword counts
SentimentOf(pos_score, neg_score) ==
    IF pos_score > neg_score
    THEN [label |-> "POZYTYWNY", score |-> pos_score - neg_score]
    ELSE IF neg_score > pos_score
    THEN [label |-> "NEGATYWNY", score |-> neg_score - pos_score]
    ELSE [label |-> "NEUTRALNY", score |-> 0]

analyze_sentiment(text) ==
    IF text = "" THEN [label |-> "NEUTRALNY", score |-> 0]
    ELSE Once(Lower(text), LAMBDA text_lower :
             SentimentOf(KeywordScore(positive_keywords, text_lower),
                         KeywordScore(negative_keywords, text_lower)))

\* sentiments.count(label)
CountLabel(sentiments, label) ==
    Cardinality({i \in 1..Len(sentiments) : sentiments[i] = label})

\* a ladder that asks for the simple majority first
OverallMajorityFirst(positive_count, negative_count) ==
    IF positive_count > negative_count THEN "+POZYT"
    ELSE IF negative_count > positive_count THEN "-NEGAT"
    ELSE "NEUTR"

\* the ladder of `overall`; x > y * 1.5 is 2x > 3y
Overall(positive_count, negative_count) ==
    IF 2 * positive_count > 3 * negative_count THEN "BULLISH"
    ELSE IF 2 * negative_count > 3 * positive_count THEN "BEARISH"
    ELSE IF positive_count > negative_count THEN "+POZYT"
    ELSE IF negative_count > positive_count THEN "-NEGAT"
    ELSE "NEUTR"

\* f"{count / total * 100:.1f}" in tenths of a percent, ties to the even digit
PctTenths(count, total) ==
    IF total = 0 THEN 0
    ELSE LET q == (count * 1000) \div total
             r == (count * 1000) % total
         IN  IF 2 * r > total \/ (2 * r = total /\ q % 2 = 1) THEN q + 1 ELSE q

\* the synthetic result of a company without recent threads
ZeroResult(name) ==
    [none |-> FALSE, name |-> name, threads |-> 0,
     pos |-> 0, neg |-> 0, neu |-> 0, pos_pct |-> 0, neg_pct |-> 0,
     overall |-> "NEUTR"]

\* sentiments = [analyze_sentiment(text)[0] for text in thread_texts]
Sentiments(thread_texts) ==
    [i \in 1..Len(thread_texts) |-> analyze_sentiment(thread_texts[i]).label]

\* the result of a company from the labels of its threads
RollupOf(name, sentiments) ==
    LET positive_count == CountLabel(sentiments, "POZYTYWNY")
        negative_count == CountLabel(sentiments, "NEGATYWNY")
        neutral_count  == CountLabel(sentiments, "NEUTRALNY")
        total          == Len(sentiments)
    IN  [none |-> FALSE, name |-> name, threads |-> total,
         pos |-> positive_count, neg |-> negative_count, neu |-> neutral_count,
         pos_pct |-> PctTenths(positive_count, total),
         neg_pct |-> PctTenths(negative_count, total),
         overall |-> Overall(positive_count, negative_count)]

\* the result of a company from the texts of its threads
Rollup(name, thread_texts) ==
    Once(Sentiments(thread_texts), LAMBDA sentiments : RollupOf(name, sentiments))

(***************************************************************************)
(* Python floats (binary64) of the fundamental score.  A float is          *)
(* [neg, hi, lo]: the sign and the magnitude (hi * 2^30 + lo) * 2^-56.     *)
(* The weights and the band limits are multiples of 2^-56, and so are all  *)
(* products and sums of them; a magnitude of 2^-3 or more is rounded to 53 *)
(* significant bits, to nearest, ties to even.  Magnitudes stay below 32.  *)
(***************************************************************************)
Limb == Pow2(15) * Pow2(15)

\* -0.0 does not arise: a zero sum of opposite numbers is +0.0
Float(neg, mag) == [neg |-> neg /\ mag # <<0, 0>>, hi |-> mag[1], lo |-> mag[2]]

Mag(x) == <<x.hi, x.lo>>

FloatZero == Float(FALSE, <<0, 0>>)

\* the doubles nearest to the literals of the source
Weight025 == Float(FALSE, <<16777216, 0>>)

Weight020 == Float(FALSE, <<13421772, 858993460>>)

Weight015 == Float(FALSE, <<10066329, 644245094>>)

Weight010 == Float(FALSE, <<6710886, 429496730>>)

Float05 == Float(FALSE, <<33554432, 0>>)

Float15 == Float(FALSE, <<100663296, 0>>)

Float30 == Float(FALSE, <<201326592, 0>>)

FNeg(x) == Float(~x.neg, Mag(x))

RECURSIVE BitLen(_)
BitLen(n) == IF n = 0 THEN 0 ELSE 1 + BitLen(n \div 2)

\* an exact magnitude rounded to 53 significant bits
RoundMag(m) ==
    LET s == BitLen(m[1]) - 23
    IN  IF s <= 0 THEN m
        ELSE LET step == Pow2(s)
                 r    == m[2] % step
                 up   == 2 * r > step \/ (2 * r = step /\ (m[2] \div step) % 2 = 1)
                 lo   == IF up THEN m[2] - r + step ELSE m[2] - r
             IN  IF lo = Limb THEN <<m[1] + 1, 0>> ELSE <<m[1], lo>>

AddMag(a, b) ==
    LET lo == a[2] + b[2]
    IN  IF lo >= Limb THEN <<a[1] + b[1] + 1, lo - Limb>> ELSE <<a[1] + b[1], lo>>

\* a - b for a >= b
SubMag(a, b) ==
    IF a[2] >= b[2] THEN <<a[1] - b[1], a[2] - b[2]>>
    ELSE <<a[1] - b[1] - 1, a[2] + Limb - b[2]>>

LessMag(a, b) == a[1] < b[1] \/ (a[1] = b[1] /\ a[2] < b[2])

RECURSIVE TimesMag(_, _)
TimesMag(n, m) == IF n = 0 THEN <<0, 0>> ELSE AddMag(m, TimesMag(n - 1, m))

\* x + y
FAdd(x, y) ==
    IF x.neg = y.neg THEN Float(x.neg, RoundMag(AddMag(Mag(x), Mag(y))))
    ELSE IF LessMag(Mag(x), Mag(y)) THEN Float(y.neg, RoundMag(SubMag(Mag(y), Mag(x))))
    ELSE Float(x.neg, RoundMag(SubMag(Mag(x), Mag(y))))

\* x - y
FSub(x, y) == FAdd(x, FNeg(y))

\* n * x for an int n
FMulInt(n, x) ==
    IF n >= 0 THEN Float(x.neg, RoundMag(TimesMag(n, Mag(x))))
    ELSE Float(~x.neg, RoundMag(TimesMag(0 - n, Mag(x))))

\* x < y
FLess(x, y) ==
    IF x.neg # y.neg THEN x.neg
    ELSE IF x.neg THEN LessMag(Mag(y), Mag(x)) ELSE LessMag(Mag(x), Mag(y))

\* x >= y
FGe(x, y) == ~FLess(x, y)

\* x > y
FGt(x, y) == FLess(y, x)

\* sum(xs) of Python up to 3.11: the floats added from left to right
RECURSIVE SumNaive(_, _, _)
SumNaive(xs, k, acc) ==
    IF k > Len(xs) THEN acc ELSE SumNaive(xs, k + 1, FAdd(acc, xs[k]))

\* sum(xs) of Python 3.12 and later: the compensated summation of
\* Neumaier, [f, c] the running sum and the compensation
RECURSIVE SumCompensated(_, _, _, _)
SumCompensated(xs, k, f, c) ==
    IF k > Len(xs) THEN (IF c = FloatZero THEN f ELSE FAdd(f, c))
    ELSE LET x == xs[k]
             t == FAdd(f, x)
         IN  IF ~LessMag(Mag(f), Mag(x))
             THEN SumCompensated(xs, k + 1, t, FAdd(c, FAdd(FSub(f, t), x)))
             ELSE SumCompensated(xs, k + 1, t, FAdd(c, FAdd(FSub(x, t), f)))

\* the results sum(xs) has on the interpreters that run the program
PySum(xs) ==
    IF Len(xs) = 0 THEN {FloatZero}
    ELSE {SumNaive(xs, 2, xs[1]), SumCompensated(xs, 2, xs[1], FloatZero)}

(***************************************************************************)
(* analyze_fundamentals and get_fundamental_rating of the fundamental      *)
(* screen.                                                                 *)
(***************************************************************************)
\* FUNDAMENTAL_CATEGORIES, in the order of the dict
FUNDAMENTAL_CATEGORIES ==
    <<[name |-> "EARNINGS", weight |-> Weight025,
      positive_keywords |->
    <<"wzrost przychod*w", "wzrost zysku", "zysk netto", "rekordowy wynik",
      "wynik finansowy", "wynik powy~ej", "wzrost EBITDA", "rentowno$^", "mar~a",
      "zyskowno$^", "lepszy wynik", "przewy~szy|", "pobi|a rekord", "przychody wzros|y",
      "zysk wzr*s|", "dodatni wynik", "zysk operacyjny">>,
      negative_keywords |->
    <<"spadek przychod*w", "spadek zysk*w", "strata netto", "strata operacyjna",
      "gorszy wynik", "spadek mar~y", "ni~sza rentowno$^", "wynik poni~ej", "odpis",
      "utrata warto$ci", "pogorszenie wyniku">>],
      [name |-> "OUTLOOK", weight |-> Weight020,
      positive_keywords |->
    <<"prognoza wzrostu", "perspektywy rozwoju", "optymistyczna prognoza",
      "pozytywne prognozy", "guidance wzrost", "cel wzrost", "szacuje wzrost",
      "przewiduje wzrost", "spodziewa si& wzrostu", "plan rozwoju", "strategia wzrostu",
      "ambitne cele", "pozytywne outlook">>,
      negative_keywords |->
    <<"obni~ona prognoza", "gorsze perspektywy", "negatywne prognozy", "obni~ony guidance",
      "ni~szy cel", "oczekuje spadku", "przewiduje spadek", "pesymistyczne prognozy",
      "gorsze outlook">>],
      [name |-> "STRATEGY", weight |-> Weight020,
      positive_keywords |->
    <<"nowa strategia", "realizacja strategii", "transformacja", "reorganizacja",
      "ekspansja", "rozw*j", "innowacja", "digitalizacja", "automatyzacja", "pozyska|",
      "wprowadza", "launch", "premiera", "nowy produkt", "nowa us|uga",
      "zmiany organizacyjne", "nowy model biznesowy">>,
      negative_keywords |->
    <<"pora~ka strategii", "problem z realizacj@", "op*%nienie projektu",
      "nieudana ekspansja", "wycofa| si&", "zamkn@|", "likwidacja",
      "restrukturyzacja przymusowa">>],
      [name |-> "CONTRACTS", weight |-> Weight015,
      positive_keywords |->
    <<"nowy kontrakt", "podpisa| umow&", "wygra| przetarg", "zawar| umow&",
      "pozyska| zlecenie", "nowe zam*wienie", "najwi&kszy kontrakt", "umowa wieloletnia",
      "warto$^ kontraktu", "strategiczny kontrakt", "kontrakt eksportowy",
      "rozszerzenie wsp*|pracy", "przed|u~enie umowy">>,
      negative_keywords |->
    <<"utrata kontraktu", "rozwi@zanie umowy", "anulowanie kontraktu", "przegra| przetarg",
      "kontrakt zagro~ony", "sp*r o kontrakt">>],
      [name |-> "MARKET_POSITION", weight |-> Weight010,
      positive_keywords |->
    <<"lider rynku", "wzrost udzia|u", "pozycja rynkowa", "dominuj@cy",
      "przewaga konkurencyjna", "zwi&kszy| udzia|", "silna pozycja", "konkurencyjno$^",
      "rozpoznawalno$^ marki", "brand value">>,
      negative_keywords |->
    <<"utrata udzia|u", "spadek pozycji", "konkurencja silniejsza", "os|abienie pozycji",
      "presja konkurencyjna">>],
      [name |-> "RISKS", weight |-> Weight010,
      positive_keywords |->
    <<>>,
      negative_keywords |->
    <<"problem", "kryzys", "zagro~enie", "ryzyko", "$ledztwo", "post&powanie", "pozew",
      "kara", "sankcja", "skandal", "afera", "konflikt", "sp*r", "ostrze~enie",
      "rating obni~ony", "podwy~szone ryzyko", "zagro~ony", "problemy finansowe",
      "problemy operacyjne", "zawieszenie", "blokada">>]>>

\* a count of the occurrences of the keywords, not of the keywords present
RECURSIVE CountOccurrences(_, _, _)
CountOccurrences(keywords, text_lower, k) ==
    IF k > Len(keywords) THEN 0
    ELSE Cardinality({i \in 1..Len(text_lower) :
                         i + Len(keywords[k]) - 1 <= Len(text_lower)
                         /\ SubSeq(text_lower, i, i + Len(keywords[k]) - 1) = keywords[k]})
         + CountOccurrences(keywords, text_lower, k + 1)

\* `for keyword in keywords: if keyword in text_lower: score += 1`
RECURSIVE CountHits(_, _, _)
CountHits(keywords, text_lower, k) ==
    IF k > Len(keywords) THEN 0
    ELSE (IF Contains(text_lower, keywords[k]) THEN 1 ELSE 0)
         + CountHits(keywords, text_lower, k + 1)

\* the highlight strings of a keyword list, f"{sign}{category_name}: {keyword}"
HitsOf(sign, category, keywords, text_lower) ==
    Once(SelectSeq(keywords, LAMBDA keyword : Contains(text_lower, keyword)),
         LAMBDA hit : [i \in 1..Len(hit) |-> sign \o category \o ": " \o hit[i]])

\* category_scores[category_name]
CategoryScore(category, text_lower) ==
    LET positive_score == CountHits(category.positive_keywords, text_lower, 1)
        negative_score == CountHits(category.negative_keywords, text_lower, 1)
        net_score      == positive_score - negative_score
    IN  [net_score |-> net_score,
         weighted_score |-> FMulInt(net_score, category.weight),
         positive_count |-> positive_score,
         negative_count |-> negative_score]

\* the highlights in the order they are met, before the cut to three
RECURSIVE AllHits(_, _, _)
AllHits(categories, text_lower, k) ==
    IF k > Len(categories) THEN <<>>
    ELSE HitsOf("+", categories[k].name, categories[k].positive_keywords, text_lower)
         \o HitsOf("-", categories[k].name, categories[k].negative_keywords, text_lower)
         \o AllHits(categories, text_lower, k + 1)

\* the results of analyze_fundamentals over a dict of categories
AnalysesOver(categories, text) ==
    IF text = ""
    THEN {[total_score |-> FloatZero,
           categories |-> <<>>, highlights |-> <<>>]}
    ELSE Once(Lower(text), LAMBDA text_lower :
           Once([k \in 1..Len(categories) |-> CategoryScore(categories[k], text_lower)],
             LAMBDA category_scores :
               Once(AllHits(categories, text_lower, 1), LAMBDA hits :
                 {[total_score |-> total,
                   categories |-> category_scores,
                   highlights |-> SubSeq(hits, 1, IF Len(hits) < 3 THEN Len(hits) ELSE 3)] :
                  total \in PySum([k \in 1..Len(categories) |->
                                      category_scores[k].weighted_score])})))

analyze_fundamentals(text) == AnalysesOver(FUNDAMENTAL_CATEGORIES, text)

\* a ladder whose slightly bullish band starts above 0.5
RatingOpenAtHalf(score) ==
    IF FGe(score, Float30) THEN "VERY BULLISH"
    ELSE IF FGe(score, Float15) THEN "BULLISH"
    ELSE IF FGt(score, Float05) THEN "SLIGHTLY BULLISH"
    ELSE IF FGt(score, FNeg(Float05)) THEN "NEUTRAL"
    ELSE IF FGt(score, FNeg(Float15)) THEN "SLIGHTLY BEARISH"
    ELSE IF FGt(score, FNeg(Float30)) THEN "BEARISH"
    ELSE "VERY BEARISH"

get_fundamental_rating(score) ==
    IF FGe(score, Float30) THEN "VERY BULLISH"
    ELSE IF FGe(score, Float15) THEN "BULLISH"
    ELSE IF FGe(score, Float05) THEN "SLIGHTLY BULLISH"
    ELSE IF FGt(score, FNeg(Float05)) THEN "NEUTRAL"
    ELSE IF FGt(score, FNeg(Float15)) THEN "SLIGHTLY BEARISH"
    ELSE IF FGt(score, FNeg(Float30)) THEN "BEARISH"
    ELSE "VERY BEARISH"

(***************************************************************************)
(* The listing page of a company: the rows kept as threads_to_scrape.      *)
(***************************************************************************)
\* a row passes `if not title_node or not date_node: continue` and the date test
RowKept(row) == row.hasTitle /\ row.hasDate /\ Recent(Strip(row.date))

\* urljoin raises ValueError on a network location with an unmatched bracket
UrlJoinRaises(href) ==
    /\ StartsWith(href, "//") \/ StartsWith(href, "http://") \/ StartsWith(href, "https://")
    /\ Contains(href, "[") # Contains(href, "]")

\* `full_url = urljoin(BANKIER_BASE_URL, href)` raises for a retained row: the
\* loop over the rows is in no try block, the ValueError leaves process_company
ListingRaises(html) ==
    \E i \in 1..Len(html.rows) : RowKept(html.rows[i]) /\ UrlJoinRaises(html.rows[i].href)

threads_to_scrape(html) ==
    Once(SelectSeq(html.rows, RowKept), LAMBDA kept :
        [i \in 1..Len(kept) |->
            [title |-> Strip(kept[i].title),
             url   |-> urljoin(BANKIER_BASE_URL, kept[i].href)]])

(***************************************************************************)
(* The tasks.  co[c] is the process_company task of companies[c], th[t]    *)
(* the process_thread task t = <<c, i>> of the i-th thread of company c.   *)
(*   pc   "acquire" - at `async with sem`, not yet inside                  *)
(*        "fetch"   - inside a fetch_page call (state in fp)               *)
(*        "polite"  - process_thread awaiting asyncio.sleep(0.3)           *)
(*        "gather"  - process_company awaiting asyncio.gather      *)
(*        "done"    - returned                                             *)
(*        "raised"  - process_company ended with an exception              *)
(*        "cancelled" - cancelled by asyncio.run after main had raised     *)
(* sem is the value of asyncio.Semaphore, held the tasks inside the        *)
(* `async with sem` block; calls keeps the finished fetch_page calls of a  *)
(* task.  web is the forum: docs[url] the documents a request for url may  *)
(* be answered with (other for the remaining urls), failures the failures  *)
(* the network produces, budget how many of them it may still produce.     *)
(***************************************************************************)
Companies == 1..Len(companies)

Threads == DOMAIN th

CoId(c) == <<c, 0>>

\* sem.acquire() that never waits
CanAcquireAlways == TRUE

\* sem.acquire() when it does not have to wait
CanAcquire == sem > 0

AcquireSem(v) == v - 1

\* a release that gives no slot back
ReleaseSemLost(v) == v

\* sem.release()
ReleaseSem(v) == v + 1

\* the documents the server may answer a request for url with
Serve(url) == IF url \in DOMAIN web.docs THEN web.docs[url] ELSE web.other

Status503 == [raised |-> FALSE, status_code |-> 503, text |-> None]

Status404 == [raised |-> FALSE, status_code |-> 404, text |-> None]

Raised == [raised |-> TRUE, status_code |-> 0, text |-> None]

Successes(url) ==
    {[raised |-> FALSE, status_code |-> 200, text |-> b] : b \in Serve(url)}

IsFailure(resp) == resp.raised \/ resp.status_code # 200

Responses(url) == Successes(url) \cup (IF budget > 0 THEN web.failures ELSE {})

NewCompany ==
    [pc |-> "acquire", fp |-> Idle, calls |-> <<>>, threads |-> 0, result |-> None]

NewThread(t) ==
    [pc |-> "acquire", fp |-> Idle, calls |-> <<>>, title |-> t.title, url |-> t.url,
     posts |-> <<>>, pages |-> <<>>, next |-> 0, result |-> ""]

\* the thread_texts of company c, in the order of its tasks
ThreadTexts(c) == [i \in 1..co[c].threads |-> th[<<c, i>>].result]

(***************************************************************************)
(* process_company                                                         *)
(***************************************************************************)
\* `async with sem:` entered, fetch_page(client, url) called
CompanyAcquire(c) ==
    /\ co[c].pc = "acquire"
    /\ CanAcquire
    /\ sem' = AcquireSem(sem)
    /\ held' = held \cup {CoId(c)}
    /\ co' = [co EXCEPT ![c].pc = "fetch", ![c].fp = FetchStart(companies[c].url)]
    /\ UNCHANGED <<companies, web, maxPages, budget, th, results, mainpc, scoring>>

\* a company task that keeps its slot after the listing fetch
CompanyKeepsGate(c) == UNCHANGED <<sem, held>>

\* the end of the `async with sem:` block of process_company
CompanyLeavesGate(c) ==
    /\ sem' = ReleaseSem(sem)
    /\ held' = held \ {CoId(c)}

\* fetch_page returned html: leave the `async with`, parse the listing, fan out
CompanyAfterFetch(c, fp) ==
    LET html  == fp.ret
        calls == Append(co[c].calls, CallRecord(fp))
        raises == ~Falsy(html) /\ ListingRaises(html)
    IN  \E tts \in {IF Falsy(html) \/ raises THEN <<>> ELSE threads_to_scrape(html)} :
        /\ CompanyLeavesGate(c)
        /\ IF Falsy(html)
           THEN /\ co' = [co EXCEPT ![c].pc = "done", ![c].fp = Idle,
                                    ![c].calls = calls, ![c].result = None]
                /\ th' = th
           ELSE IF raises
           THEN /\ co' = [co EXCEPT ![c].pc = "raised", ![c].fp = Idle, ![c].calls = calls]
                /\ th' = th
           ELSE IF Len(tts) = 0
           THEN /\ co' = [co EXCEPT ![c].pc = "done", ![c].fp = Idle,
                                    ![c].calls = calls,
                                    ![c].result = ZeroResult(companies[c].name)]
                /\ th' = th
           ELSE /\ co' = [co EXCEPT ![c].pc = "gather", ![c].fp = Idle,
                                    ![c].calls = calls, ![c].threads = Len(tts)]
                /\ th' = [t \in Threads \cup {<<c, i>> : i \in 1..Len(tts)} |->
                             IF t \in Threads THEN th[t] ELSE NewThread(tts[t[2]])]

\* one more step of the fetch_page call of company c
CompanyFetchStep(c, fp) ==
    IF fp.pc = "ret"
    THEN CompanyAfterFetch(c, fp)
    ELSE /\ co' = [co EXCEPT ![c].fp = fp]
         /\ UNCHANGED <<sem, held, th>>

\* client.get of the listing fetch completes
CompanyResponse(c) ==
    /\ co[c].pc = "fetch" /\ co[c].fp.pc = "get"
    /\ \E resp \in Responses(co[c].fp.url) :
          /\ budget' = IF IsFailure(resp) THEN budget - 1 ELSE budget
          /\ \E fp \in {FetchOnResponse(co[c].fp, resp)} : CompanyFetchStep(c, fp)
    /\ UNCHANGED <<companies, web, maxPages, results, mainpc, scoring>>

\* the sleep of the listing fetch completes
CompanyWake(c) ==
    /\ co[c].pc = "fetch" /\ co[c].fp.pc = "sleep"
    /\ \E fp \in {FetchOnWake(co[c].fp)} : CompanyFetchStep(c, fp)
    /\ UNCHANGED <<companies, web, maxPages, budget, results, mainpc, scoring>>

\* a gather that returns with the first thread task that has returned
SomeThreadDone(c) == \E i \in 1..co[c].threads : th[<<c, i>>].pc = "done"

\* `await asyncio.gather` of the thread tasks: every one of them has returned
AllThreadsDone(c) == \A i \in 1..co[c].threads : th[<<c, i>>].pc = "done"

\* asyncio.gather of the thread tasks completes: score and roll up
CompanyGather(c) ==
    /\ co[c].pc = "gather"
    /\ AllThreadsDone(c)
    /\ \E result \in {Rollup(companies[c].name, ThreadTexts(c))} :
          co' = [co EXCEPT ![c].pc = "done", ![c].result = result]
    /\ UNCHANGED <<companies, web, maxPages, budget, sem, held, th, results, mainpc, scoring>>

(***************************************************************************)
(* process_thread                                                          *)
(***************************************************************************)
\* the pagination block raises; the `except Exception: pass` swallows it
PaginationRaises(html) == \E i \in 1..Len(html.links) : UrlJoinRaises(html.links[i])

\* `async with sem:` entered, fetch_page(client, thread['url']) called
ThreadAcquire(t) ==
    /\ th[t].pc = "acquire"
    /\ CanAcquire
    /\ sem' = AcquireSem(sem)
    /\ held' = held \cup {t}
    /\ th' = [th EXCEPT ![t].pc = "fetch", ![t].fp = FetchStart(th[t].url)]
    /\ UNCHANGED <<companies, web, maxPages, budget, co, results, mainpc, scoring>>

\* process_thread returns without leaving the `async with`
ThreadReturnKeepsSlot(t, calls, posts, text) ==
    /\ UNCHANGED <<sem, held>>
    /\ th' = [th EXCEPT ![t].pc = "done", ![t].fp = Idle, ![t].calls = calls,
                        ![t].posts = posts, ![t].result = text]

\* process_thread returns text: the `async with` is left
ThreadReturn(t, calls, posts, text) ==
    /\ sem' = ReleaseSem(sem)
    /\ held' = held \ {t}
    /\ th' = [th EXCEPT ![t].pc = "done", ![t].fp = Idle, ![t].calls = calls,
                        ![t].posts = posts, ![t].result = text]

\* the head of `for page_url in pages_to_fetch`, about to take pages[i]
ThreadLoop(t, calls, posts, pages, i) ==
    IF i <= Len(pages) /\ BelowPostCap(posts)
    THEN /\ th' = [th EXCEPT ![t].pc = "fetch", ![t].fp = FetchStart(pages[i]),
                             ![t].calls = calls, ![t].posts = posts,
                             ![t].pages = pages, ![t].next = i]
         /\ UNCHANGED <<sem, held>>
    ELSE \E text \in {CombinedText(th[t].title, posts)} : ThreadReturn(t, calls, posts, text)

\* fetch_page of the first page returned
ThreadAfterFirst(t, fp) ==
    LET initial_html == fp.ret
        calls        == Append(th[t].calls, CallRecord(fp))
    IN  IF Falsy(initial_html)
        THEN ThreadReturn(t, calls, <<>>, TitleOnly(th[t].title))
        ELSE \E posts \in {extract_posts_from_html(initial_html)} :
             IF BelowPostCap(posts) /\ maxPages > 1 /\ ~PaginationRaises(initial_html)
             THEN \E pages \in {PagesToFetch(initial_html, th[t].url, maxPages)} :
                     ThreadLoop(t, calls, posts, pages, 1)
             ELSE \E text \in {CombinedText(th[t].title, posts)} :
                     ThreadReturn(t, calls, posts, text)

\* fetch_page of an additional page returned
ThreadAfterPage(t, fp) ==
    LET page_html == fp.ret
        calls     == Append(th[t].calls, CallRecord(fp))
    IN  IF ~Falsy(page_html)
        THEN /\ \E posts \in {th[t].posts \o extract_posts_from_html(page_html)} :
                   th' = [th EXCEPT ![t].pc = "polite", ![t].fp = Idle,
                                    ![t].calls = calls, ![t].posts = posts]
             /\ UNCHANGED <<sem, held>>
        ELSE ThreadLoop(t, calls, th[t].posts, th[t].pages, th[t].next + 1)

\* one more step of the fetch_page call of thread t
ThreadFetchStep(t, fp) ==
    IF fp.pc = "ret"
    THEN IF th[t].next = 0 THEN ThreadAfterFirst(t, fp) ELSE ThreadAfterPage(t, fp)
    ELSE /\ th' = [th EXCEPT ![t].fp = fp]
         /\ UNCHANGED <<sem, held>>

\* client.get of a page fetch completes
ThreadResponse(t) ==
    /\ th[t].pc = "fetch" /\ th[t].fp.pc = "get"
    /\ \E resp \in Responses(th[t].fp.url) :
          /\ budget' = IF IsFailure(resp) THEN budget - 1 ELSE budget
          /\ \E fp \in {FetchOnResponse(th[t].fp, resp)} : ThreadFetchStep(t, fp)
    /\ UNCHANGED <<companies, web, maxPages, co, results, mainpc, scoring>>

\* the sleep inside a page fetch completes
ThreadWake(t) ==
    /\ th[t].pc = "fetch" /\ th[t].fp.pc = "sleep"
    /\ \E fp \in {FetchOnWake(th[t].fp)} : ThreadFetchStep(t, fp)
    /\ UNCHANGED <<companies, web, maxPages, budget, co, results, mainpc, scoring>>

\* asyncio.sleep(0.3) completes: the next iteration of the page loop
ThreadPolite(t) ==
    /\ th[t].pc = "polite"
    /\ ThreadLoop(t, th[t].calls, th[t].posts, th[t].pages, th[t].next + 1)
    /\ UNCHANGED <<companies, web, maxPages, budget, co, results, mainpc, scoring>>

(***************************************************************************)
(* main                                                                    *)
(***************************************************************************)
\* results = [r for r in results if r]
FilterResults(rs) == SelectSeq(rs, LAMBDA r : r # None)

\* asyncio.gather of the company tasks completes
MainGather ==
    /\ mainpc = "gather"
    /\ \A c \in Companies : co[c].pc = "done"
    /\ results' = FilterResults([c \in Companies |-> co[c].result])
    /\ mainpc' = "done"
    /\ UNCHANGED <<companies, web, maxPages, budget, sem, held, co, th, scoring>>

\* a task that has not returned when asyncio.run cancels what is left: the
\* CancelledError is thrown at its await and ends it
Cancelled(task) ==
    IF task.pc \in {"done", "raised"} THEN task
    ELSE [task EXCEPT !.pc = "cancelled", !.fp = Idle]

\* asyncio.gather passes the exception of a company task on: main raises,
\* asyncio.run cancels the tasks that are left, each leaving its `async with`
MainCrash ==
    /\ mainpc = "gather"
    /\ \E c \in Companies : co[c].pc = "raised"
    /\ mainpc' = "raised"
    /\ co' = [c \in Companies |-> Cancelled(co[c])]
    /\ th' = [t \in Threads |-> Cancelled(th[t])]
    /\ sem' = sem + Cardinality(held)
    /\ held' = {}
    /\ UNCHANGED <<companies, web, maxPages, budget, results, scoring>>

(***************************************************************************)
(* Inputs: the company file and the documents of the forum.                *)
(***************************************************************************)
\* the number of companies of the run with contention for the gate
NumCompanies == 2

\* the failures the network may produce in a run
GateFaults == 1
FetchFaults == 3
CrawlFaults == 1

\* the posts of the large thread page
BigPagePosts == 36

\* the responses that may fail in a run over several companies
RunFaults == 1

Company(k) ==
    [name |-> "Spolka" \o Char("123456789", k),
     url  |-> BANKIER_BASE_URL \o "/forum/forum_s" \o Char("123456789", k) \o ".html"]

Row(title, href, date) ==
    [hasTitle |-> TRUE, title |-> title, href |-> href, hasDate |-> TRUE, date |-> date]

Listing(rows) == [rows |-> rows, nodes |-> <<>>, links |-> <<>>, empty |-> FALSE]

Page(nodes, links) == [rows |-> <<>>, nodes |-> nodes, links |-> links, empty |-> FALSE]

Node(cls, text) == [cls |-> cls, text |-> text]

\* a listing with five recent threads and one that is too old
ListingFive ==
    Listing(<<Row("Bedzie wzrost", "/forum/temat,1.html", "dzi$ 10:15"),
              Row("spadek i panika", "/forum/temat,2.html", "wczoraj 09:15"),
              Row("Stare dzieje", "/forum/temat,3.html", "2023-11-02 08:00"),
              Row("Co dalej", "/forum/temat,4.html", "2024-01-20 14:00"),
              Row("kupuj", "/forum/temat,5.html", "Dzisiaj 7:05"),
              Row("krach", "/forum/temat,6.html", "2024-01-21  9:30")>>)

\* a listing without a recent thread
ListingNone ==
    Listing(<<Row("Stare dzieje", "/forum/temat,3.html", "2023-11-02 08:00"),
              [hasTitle |-> TRUE, title |-> "Bez daty", href |-> "/forum/temat,5.html",
               hasDate |-> FALSE, date |-> ""]>>)

\* a listing with two recent threads
ListingTwo ==
    Listing(<<Row("zysk ro$nie", "/forum/temat,10.html", "dzi$ 9:00"),
              Row("Co z dywidend@", "/forum/temat,11.html", "wczoraj")>>)

\* a listing with a thread whose title has one positive keyword and a thread
\* whose title link has no text
ListingMood ==
    Listing(<<Row("Bedzie WZROST", "/forum/temat,12.html", "wczoraj 23:59"),
              Row("  ", "/forum/temat,13.html", "dzisiaj")>>)

\* a listing with a recent row whose href is no URL urljoin accepts
ListingBad ==
    Listing(<<Row("Dobry watek", "/forum/temat,9.html", "dzisiaj"),
              Row("Zly odsylacz", "//[zly", "dzisiaj 11:00")>>)

\* a thread page with one post and no pagination
PageLast ==
    Page(<<Node({"div.post-content"}, "kupuj bo b&dzie wzrost kursu")>>, <<>>)

\* a thread page with one post and a link to a second page
PageMore ==
    Page(<<Node({"div.message"}, "sprzedam wszystko,  to  dno"),
           Node({"div.message"}, "ok")>>,
         <<"/forum/temat,1,2.html">>)

\* a listing whose only thread has a title longer than MAX_THREAD_TEXT_CHARS,
\* and one with an ordinary title
ListingLongTitle ==
    Listing(<<Row(Rep("wzrost ", 2858), "/forum/temat,7.html", "dzi$ 08:00")>>)

ListingOne ==
    Listing(<<Row("  Rekord czy krach  ", "/forum/temat,8.html", "dzisiaj")>>)

\* BigPagePosts different posts, reachable by two selectors, and more
\* pagination links than MAX_PAGES_PER_THREAD, unsorted, one repeated, one
\* without a page number
PageBig ==
    Page([i \in 1..BigPagePosts |->
             Node({"div.post-content", "div.post-body"},
                  "wpis numer " \o Rep("i", i) \o " .")],
         <<"/forum/temat,8,2.html", "/forum/temat,8,5.html", "/forum/temat,8,3.html",
           "/forum/temat,8,3.html", "/forum/temat,8.html", "/forum/inne.html",
           "/forum/temat,8,4.html", "/forum/temat,8,6.html", "/forum/temat,8,7.html">>)

\* a page with a post that two selectors match, two posts that differ in
\* whitespace only, posts of 15 and of 16 characters, and a short one
PageDup ==
    Page(<<Node({"div.message"}, "Kupuj  teraz,   bo ro$nie"),
           Node({"div.post-content", "div.message"}, "spadek, b&dzie krach"),
           Node({"div.post-body"}, "Kupuj teraz, bo ro$nie"),
           Node({"div.message"}, "dokladnie 15 zn"),
           Node({"div.message"}, "tak    i     nie"),
           Node({"div.postContent"}, "a to ma 16 znak*"),
           Node({"div.message"}, "ok")>>,
         <<"/forum/temat,8,2.html">>)

\* a page whose single post is longer than MAX_THREAD_TEXT_CHARS
PageLong ==
    Page(<<Node({"div.postContent"}, Rep("strata ", 2858))>>,
         <<"/forum/temat,8,2.html", "//[zly", "/forum/temat,8,3.html">>)

\* no call of a scoring function on its own has been made
NoScoring == [fn |-> "", arg |-> <<>>, ret |-> <<>>]

InitTasks ==
    /\ sem = MAX_CONCURRENT_REQUESTS
    /\ held = {}
    /\ co = [c \in Companies |-> NewCompany]
    /\ th = [t \in {} |-> NewThread([title |-> "", url |-> ""])]
    /\ results = <<>>
    /\ mainpc = "gather"
    /\ scoring = NoScoring

\* two companies, one with five recent threads and one with none or with a
\* malformed listing: with the listing fetch of the second, more tasks than slots
Init ==
    /\ companies = [k \in 1..NumCompanies |-> Company(k)]
    /\ web = [docs |-> (Company(1).url :> {ListingFive}) @@ (Company(2).url :> {ListingNone, ListingBad})
                       @@ (BANKIER_BASE_URL \o "/forum/temat,1.html" :> {PageMore}),
              other |-> {PageLast},
              failures |-> {Status503}]
    /\ maxPages = MAX_PAGES_PER_THREAD
    /\ budget = GateFaults
    /\ InitTasks

\* one company with one or two threads of two pages, on a network that fails often
InitFetch ==
    /\ companies = <<Company(1)>>
    /\ web = [docs |-> (Company(1).url :> {ListingOne, ListingTwo, ListingBad}),
              other |-> {PageMore},
              failures |-> {Status503, Status404, Raised}]
    /\ maxPages = MAX_PAGES_PER_THREAD
    /\ budget = FetchFaults
    /\ InitTasks

\* one company with at most one thread, crawled over large documents
InitCrawl ==
    /\ companies = <<Company(1)>>
    /\ web = [docs |-> (Company(1).url :> {ListingOne, ListingLongTitle, ListingNone, ListingBad})
                       @@ (BANKIER_BASE_URL \o "/forum/temat,7.html" :> {PageLast})
                       @@ (BANKIER_BASE_URL \o "/forum/temat,8.html" :>
                               {PageBig, PageLong, PageLast}),
              other |-> {PageBig, PageLast},
              failures |-> {Status503, Status404, Raised}]
    /\ maxPages \in {1, MAX_PAGES_PER_THREAD}
    /\ budget = CrawlFaults
    /\ InitTasks

\* a run over two companies whose listings have one or two threads, no
\* recent thread, an empty body or a malformed row, on a network that may
\* fail once
InitRun ==
    /\ companies = <<Company(1), Company(2)>>
    /\ web = [docs |-> (Company(1).url :> {ListingOne, EmptyBody})
                       @@ (Company(2).url :> {ListingMood, ListingNone, ListingBad})
                       @@ (BANKIER_BASE_URL \o "/forum/temat,8.html" :> {PageDup}),
              other |-> {PageMore},
              failures |-> {Status503, Status404}]
    /\ maxPages = MAX_PAGES_PER_THREAD
    /\ budget = RunFaults
    /\ InitTasks

Next ==
    \/ \E c \in Companies : CompanyAcquire(c)
    \/ \E c \in Companies : CompanyResponse(c)
    \/ \E c \in Companies : CompanyWake(c)
    \/ \E c \in Companies : CompanyGather(c)
    \/ \E t \in Threads : ThreadAcquire(t)
    \/ \E t \in Threads : ThreadResponse(t)
    \/ \E t \in Threads : ThreadWake(t)
    \/ \E t \in Threads : ThreadPolite(t)
    \/ MainGather
    \/ MainCrash

Spec == Init /\ [][Next]_vars

SpecFetch == InitFetch /\ [][Next]_vars

SpecCrawl == InitCrawl /\ [][Next]_vars

SpecRun == InitRun /\ [][Next]_vars

(***************************************************************************)
(* The scoring functions called on their own, on arguments drawn from      *)
(* bounded sets: `scoring` holds the last call, its argument and result.   *)
(***************************************************************************)
\* the thread labels of one company are at most this many
MaxLabels == 5

\* a sentiments list with p positive, n negative and u neutral labels
LabelsOf(p, n, u) ==
    [i \in 1..(p + n + u) |->
        IF i <= p THEN "POZYTYWNY" ELSE IF i <= p + n THEN "NEGATYWNY" ELSE "NEUTRALNY"]

\* lines 288-316 of process_company on a sentiments list
ScoreRollup ==
    /\ \E p, n, u \in 0..MaxLabels :
          /\ p + n + u <= MaxLabels
          /\ scoring' = [fn |-> "rollup", arg |-> <<p, n, u>>,
                         ret |-> RollupOf(Company(1).name, LabelsOf(p, n, u))]
    /\ UNCHANGED <<companies, web, maxPages, budget, sem, held, co, th, results, mainpc>>

\* the texts given to analyze_fundamentals: the empty text; two EARNINGS
\* hits and an OUTLOOK hit against a STRATEGY miss; one keyword three times;
\* negative hits only; a keyword in the capitals of the source; no keyword;
\* and the text of the two-category scenario
FundTexts ==
    {"",
     "Zysk netto ro$nie, rentowno$^ te~, jest plan rozwoju, ale likwidacja oddzia|u",
     "nowy kontrakt, nowy kontrakt i jeszcze raz NOWY KONTRAKT",
     "kryzys i pozew, do tego kara; spadek przychod*w, strata netto",
     "Wzrost EBITDA",
     "nic ciekawego",
     "zysk i pozew"}

\* a dict of two categories of weight 0.5 each
TwoCategories ==
    <<[name |-> "A", weight |-> Float05,
       positive_keywords |-> <<"zysk">>, negative_keywords |-> <<"strata">>],
      [name |-> "B", weight |-> Float05,
       positive_keywords |-> <<"kontrakt">>, negative_keywords |-> <<"pozew">>]>>

\* the scores up to this many quarters on either side of 0 are rated
MaxQuarter == 14

\* one unit in the last place of x, in units of 2^-56
Ulp(x) == IF BitLen(x.hi) > 23 THEN Pow2(BitLen(x.hi) - 23) ELSE 1

\* a float close above x and one close below x
Above(x) ==
    IF x.neg THEN Float(TRUE, SubMag(Mag(x), <<0, Ulp(x)>>))
    ELSE Float(FALSE, AddMag(Mag(x), <<0, Ulp(x)>>))

Below(x) == FNeg(Above(FNeg(x)))

\* the scores given to get_fundamental_rating: the multiples of 0.25, which
\* the limits of the bands are among, and a float on either side of each
RatingScores ==
    UNION {{x, Above(x), Below(x)} :
             x \in {FMulInt(k, Weight025) : k \in (0 - MaxQuarter)..MaxQuarter}}

\* analyze_fundamentals(text) and the rating of its total, as process_company
\* of the fundamental screen calls them
ScoreFundamentals ==
    /\ \E text \in FundTexts : \E analysis \in analyze_fundamentals(text) :
          scoring' = [fn |-> "fundamentals",
                      arg |-> [categories |-> FUNDAMENTAL_CATEGORIES, text |-> text],
                      ret |-> [analysis |-> analysis,
                               rating |-> get_fundamental_rating(analysis.total_score)]]
    /\ UNCHANGED <<companies, web, maxPages, budget, sem, held, co, th, results, mainpc>>

\* the same two calls with FUNDAMENTAL_CATEGORIES set to two categories
ScoreTwoCategories ==
    /\ \E text \in FundTexts : \E analysis \in AnalysesOver(TwoCategories, text) :
          scoring' = [fn |-> "fundamentals",
                      arg |-> [categories |-> TwoCategories, text |-> text],
                      ret |-> [analysis |-> analysis,
                               rating |-> get_fundamental_rating(analysis.total_score)]]
    /\ UNCHANGED <<companies, web, maxPages, budget, sem, held, co, th, results, mainpc>>

\* get_fundamental_rating(score)
ScoreRating ==
    /\ \E score \in RatingScores :
          scoring' = [fn |-> "rating", arg |-> score, ret |-> get_fundamental_rating(score)]
    /\ UNCHANGED <<companies, web, maxPages, budget, sem, held, co, th, results, mainpc>>

\* the texts analyze_sentiment is given on its own
SentimentTexts == {"", "Bedzie WZROST", "long position", "Kupuj, b&dzie Rekord", "nic"}

\* analyze_sentiment(text)
ScoreSentiment ==
    /\ \E text \in SentimentTexts :
          scoring' = [fn |-> "sentiment", arg |-> text, ret |-> analyze_sentiment(text)]
    /\ UNCHANGED <<companies, web, maxPages, budget, sem, held, co, th, results, mainpc>>

\* no company and no request: only the scoring functions run
InitScore ==
    /\ companies = <<>>
    /\ web = [docs |-> <<>>, other |-> {}, failures |-> {}]
    /\ maxPages = MAX_PAGES_PER_THREAD
    /\ budget = 0
    /\ InitTasks

NextScore ==
    \/ ScoreRollup
    \/ ScoreFundamentals
    \/ ScoreTwoCategories
    \/ ScoreRating
    \/ ScoreSentiment

SpecScore == InitScore /\ [][NextScore]_vars

\* the event loop keeps running: a step that can be taken is taken
FairSpec == Spec /\ WF_vars(Next)

(***************************************************************************)
(* The gate.                                                               *)
(***************************************************************************)
\* the tasks with a GET in flight, and the tasks inside a fetch_page call
CompaniesIn(pcs) == {c \in Companies : co[c].pc = "fetch" /\ co[c].fp.pc \in pcs}

ThreadsIn(pcs) == {t \in Threads : th[t].pc = "fetch" /\ th[t].fp.pc \in pcs}

Outstanding(pcs) == Cardinality(CompaniesIn(pcs)) + Cardinality(ThreadsIn(pcs))

\* C1: at every instant at most MAX_CONCURRENT_REQUESTS fetches are
\* outstanding, listing fetches and thread-page fetches of all companies
\* counted together (GETs in flight, and fetch_page calls in progress).
C1_GateBound ==
    /\ Outstanding({"get"}) <= MAX_CONCURRENT_REQUESTS
    /\ Outstanding({"get", "sleep"}) <= MAX_CONCURRENT_REQUESTS

\* all slots taken by GETs of a listing fetch and of thread fetches, a thread waiting
C1_Witness ==
    /\ Outstanding({"get"}) = MAX_CONCURRENT_REQUESTS
    /\ CompaniesIn({"get"}) # {} /\ ThreadsIn({"get"}) # {}
    /\ \E t \in Threads : th[t].pc = "acquire"

\* a task is inside one of its own fetch_page calls
CompanyFetching(c) == co[c].pc = "fetch"

ThreadFetching(t) == th[t].pc = "fetch"

\* C2 as stated: a task holds a slot only while one of its own fetches is
\* outstanding.
C2_SlotOnlyWhileFetching ==
    /\ \A c \in Companies : CoId(c) \in held => CompanyFetching(c)
    /\ \A t \in Threads : t \in held => ThreadFetching(t)

\* C2 amended: a company task holds a slot exactly while its listing fetch
\* is in progress; a thread task holds one slot from before its first page
\* fetch until process_thread returns, the sleeps between its page fetches
\* included; every fetch is made holding a slot, and the free slots are
\* those not held.
C2_SlotHeldForCrawl ==
    /\ \A c \in Companies : CoId(c) \in held <=> CompanyFetching(c)
    /\ \A t \in Threads : t \in held <=> th[t].pc \in {"fetch", "polite"}
    /\ sem = MAX_CONCURRENT_REQUESTS - Cardinality(held)

\* a thread sleeps between two page fetches, holding its slot
C2_Witness == \E t \in Threads : th[t].pc = "polite" /\ t \in held

\* a task got its slot and returned: it made a fetch and is done
CompanyFinished(c) == co[c].pc = "done" /\ Len(co[c].calls) >= 1

ThreadFinished(t) == th[t].pc = "done" /\ Len(th[t].calls) >= 1

\* C3: when every GET and every sleep completes, the run ends with every
\* company task and every thread task finished, each having got its slot at
\* the gate: no task waits forever.
C3_NoStarvation ==
    <>(/\ mainpc = "done"
       /\ \A c \in Companies : CompanyFinished(c)
       /\ \A t \in Threads : ThreadFinished(t))

(***************************************************************************)
(* fetch_page.                                                             *)
(***************************************************************************)
\* the fetch_page calls that returned, and those in progress
FinishedCalls ==
    UNION {{co[c].calls[i] : i \in 1..Len(co[c].calls)} : c \in Companies}
    \cup UNION {{th[t].calls[i] : i \in 1..Len(th[t].calls)} : t \in Threads}

OpenCalls ==
    {co[c].fp : c \in {d \in Companies : CompanyFetching(d)}}
    \cup {th[t].fp : t \in {u \in Threads : ThreadFetching(u)}}

\* the answers of the GET attempts of a call, in order
GetsOf(log) == SelectSeq(log, LAMBDA e : e.ev = "get")

\* the GET attempts a call in progress has issued
GetsIssued(fp) == Len(GetsOf(fp.log)) + (IF fp.pc = "get" THEN 1 ELSE 0)

\* C4: a call of fetch_page issues at most MAX_RETRIES GET attempts,
\* whatever the answers are.
C4_AttemptBound ==
    /\ \A r \in FinishedCalls : Len(GetsOf(r.log)) <= MAX_RETRIES
    /\ \A fp \in OpenCalls : GetsIssued(fp) <= MAX_RETRIES

\* a call that used all its attempts and gave up
C4_Witness ==
    \E r \in FinishedCalls : Len(GetsOf(r.log)) = MAX_RETRIES /\ r.ret = None

\* the answer of an attempt: a 200, a failure that is retried, another status
Ok(e) == ~e.raised /\ e.status = 200

Retryable(e) == e.raised \/ e.status = 503

Other(e) == e.ev = "get" /\ ~e.raised /\ e.status \notin {200, 503}

\* the attempts answered 200 after nothing but retried failures
Wins(gets) ==
    {k \in 1..Len(gets) : Ok(gets[k]) /\ \A j \in 1..(k - 1) : Retryable(gets[j])}

\* C5: fetch_page returns the body of attempt k, k <= MAX_RETRIES, exactly
\* when attempt k is answered 200 and every earlier attempt ended in a 503
\* or an exception; in every other case it returns None: an exception of
\* client.get is an answer like the others, after which the call goes on or
\* returns None.
C5_ReturnsFirstSuccess ==
    /\ \A r \in FinishedCalls :
          LET gets == GetsOf(r.log)
          IN  /\ \A k \in Wins(gets) : k <= MAX_RETRIES /\ r.ret = gets[k].text
              /\ Wins(gets) = {} <=> r.ret = None
    /\ \A fp \in OpenCalls : Wins(GetsOf(fp.log)) = {} /\ fp.pc \in {"get", "sleep"}

\* a call that met an exception and a 503 and returned the body of its third attempt
C5_Witness ==
    \E r \in FinishedCalls :
        LET gets == GetsOf(r.log)
        IN  /\ Len(gets) = MAX_RETRIES /\ r.ret # None
            /\ \E j \in 1..Len(gets) : gets[j].raised
            /\ \E j \in 1..Len(gets) : gets[j].status = 503

\* C6: an attempt answered with a status other than 200 and 503 is the last
\* thing the call does: it returns None, with no sleep and no GET after it.
C6_OtherStatusEndsCall ==
    /\ \A r \in FinishedCalls : \A i \in 1..Len(r.log) :
          Other(r.log[i]) => i = Len(r.log) /\ r.ret = None
    /\ \A fp \in OpenCalls : \A i \in 1..Len(fp.log) : ~Other(fp.log[i])

\* a call that was answered 404 on its second attempt and returned, one attempt unused
C6_Witness ==
    \E r \in FinishedCalls :
        /\ Len(GetsOf(r.log)) = MAX_RETRIES - 1
        /\ Other(r.log[Len(r.log)])
        /\ r.ret = None

(***************************************************************************)
(* process_thread.                                                         *)
(***************************************************************************)
\* C7: the text process_thread returns is at most MAX_THREAD_TEXT_CHARS
\* long, whatever the outcome of its fetches.
C7_TextBounded ==
    \A t \in Threads : th[t].pc = "done" => Len(th[t].result) <= MAX_THREAD_TEXT_CHARS

\* C8: the posts accumulated for a thread never exceed MAX_POSTS_PER_THREAD,
\* and no page is fetched once the cap is reached.
C8_PostCap ==
    \A t \in Threads :
        /\ Len(th[t].posts) <= MAX_POSTS_PER_THREAD
        /\ ThreadFetching(t) /\ th[t].next >= 1 => Len(th[t].posts) < MAX_POSTS_PER_THREAD

\* the pages a thread crawl has fetched or is fetching
PagesFetched(t) == Len(th[t].calls) + (IF ThreadFetching(t) THEN 1 ELSE 0)

\* C9: a thread crawl fetches at most as many pages as the page cap, the
\* first page counted, whatever the pagination links are; with a cap of 1
\* it fetches the first page only.
C9_PageBound ==
    \A t \in Threads :
        /\ PagesFetched(t) <= maxPages
        /\ PagesFetched(t) <= MAX_PAGES_PER_THREAD
        /\ maxPages = 1 => PagesFetched(t) <= 1 /\ th[t].pc # "polite"

\* a crawl that fetched as many pages as the cap allows, of a first page
\* with more links than that
C9_Witness ==
    \E t \in Threads :
        /\ th[t].pc = "done" /\ Len(th[t].calls) = MAX_PAGES_PER_THREAD
        /\ Len(th[t].calls[1].ret.links) > MAX_PAGES_PER_THREAD

\* the first page fetch of thread t returned None
FirstFetchFailed(t) == Len(th[t].calls) >= 1 /\ th[t].calls[1].ret = None

\* the text of a thread as the caller must score it
ScoredText(t) == IF FirstFetchFailed(t) THEN th[t].title ELSE th[t].result

\* C10: when the fetch of the first page returns None, process_thread
\* returns exactly the title and fetches nothing more, and process_company
\* counts the label of the title like that of any other thread text.
C10_TitleOnFailedFirstFetch ==
    \A t \in Threads : FirstFetchFailed(t) =>
        /\ th[t].pc = "done" /\ th[t].result = th[t].title
        /\ Len(th[t].calls) = 1 /\ th[t].posts = <<>>
        /\ co[t[1]].pc = "done" =>
              co[t[1]].result =
                  RollupOf(companies[t[1]].name,
                           [i \in 1..co[t[1]].threads |->
                               analyze_sentiment(ScoredText(<<t[1], i>>)).label])

\* a thread whose first fetch failed, its title counted in the result of its company
C10_Witness ==
    \E t \in Threads :
        /\ FirstFetchFailed(t) /\ th[t].title # ""
        /\ co[t[1]].pc = "done" /\ co[t[1]].result.threads >= 1

(***************************************************************************)
(* Pagination.                                                             *)
(***************************************************************************)
\* the links of the first page of thread t that have a page number and are
\* not the thread's own url
Candidates(t) ==
    SelectSeq(PaginationLinks(th[t].calls[1].ret), LAMBDA l : ValidLink(l, th[t].url))

\* how often a link occurs in a sequence of links
Occurrences(links, l) == Cardinality({i \in 1..Len(links) : links[i] = l})

\* the first page of a thread with the links of the pages 2, 5 and 3
PageThreeLinks ==
    Page(<<>>, <<"/forum/temat,8,2.html", "/forum/temat,8,5.html", "/forum/temat,8,3.html">>)

\* C11: the pages selected for a crawl are links with a page number, in
\* ascending order of that number, the (page cap - 1) lowest of them; the
\* additional pages are fetched in that order; links of the pages 2, 5, 3
\* with a page cap of 3 give the pages 2, 3.
C11_PagesAscending ==
    /\ \A t \in Threads : th[t].next >= 1 =>
          LET pages == th[t].pages
              cand  == Candidates(t)
          IN  /\ \A i \in 1..Len(pages) :
                    HasPageMatch(pages[i]) /\ Occurrences(pages, pages[i]) <= Occurrences(cand, pages[i])
              /\ \A i \in 1..(Len(pages) - 1) : PageNum(pages[i]) <= PageNum(pages[i + 1])
              /\ Len(pages) = (IF Len(cand) < maxPages - 1 THEN Len(cand) ELSE maxPages - 1)
              /\ \A j \in 1..Len(cand) :
                    Occurrences(pages, cand[j]) < Occurrences(cand, cand[j]) =>
                        \A i \in 1..Len(pages) : PageNum(pages[i]) <= PageNum(cand[j])
              /\ \A k \in 2..Len(th[t].calls) : th[t].calls[k].url = pages[k - 1]
              /\ ThreadFetching(t) => th[t].fp.url = pages[Len(th[t].calls)]
    /\ PagesToFetch(PageThreeLinks, BANKIER_BASE_URL \o "/forum/temat,8.html", 3)
          = <<BANKIER_BASE_URL \o "/forum/temat,8,2.html",
              BANKIER_BASE_URL \o "/forum/temat,8,3.html">>

\* a crawl that fetched the pages 2, 3, 3, 4 of a first page whose links
\* name the pages 2, 5, 3, 3, 4, 6, 7 in that order
C11_Witness ==
    \E t \in Threads :
        /\ th[t].pc = "done" /\ Len(th[t].calls) = MAX_PAGES_PER_THREAD
        /\ Len(Candidates(t)) > MAX_PAGES_PER_THREAD
        /\ PageNum(Candidates(t)[2]) > PageNum(Candidates(t)[3])
        /\ [k \in 1..4 |-> PageNum(th[t].calls[k + 1].url)] = <<2, 3, 3, 4>>

(***************************************************************************)
(* The fan-in of process_company.                                          *)
(***************************************************************************)
\* the thread tasks of company c
ThreadsOf(c) == {t \in Threads : t[1] = c}

\* the rows of the listing of company c that are retained as threads
Retained(c) == SelectSeq(co[c].calls[1].ret.rows, RowKept)

\* company c fanned out thread tasks
FannedOut(c) == co[c].threads > 0

\* C12: process_company returns its result only when every thread task it
\* fanned out has returned; a thread whose fetches all failed is counted with
\* its title as its text; the company task does not fail, its thread count is
\* the number of retained threads, and positive + negative + neutral is that
\* count.
C12_FullFanIn ==
    \A c \in Companies : FannedOut(c) =>
        /\ co[c].pc \in {"gather", "done", "cancelled"}
        /\ Cardinality(ThreadsOf(c)) = co[c].threads
        /\ co[c].threads = Len(Retained(c))
        /\ co[c].pc = "done" =>
              /\ \A t \in ThreadsOf(c) : th[t].pc = "done"
              /\ \A t \in ThreadsOf(c) : FirstFetchFailed(t) => th[t].result = th[t].title
              /\ co[c].result # None
              /\ co[c].result.threads = Len(Retained(c))
              /\ co[c].result.pos + co[c].result.neg + co[c].result.neu = co[c].result.threads

\* a company that returned a result over two threads, all fetches of one of which failed
C12_Witness ==
    \E c \in Companies :
        /\ co[c].pc = "done" /\ co[c].threads = 2 /\ co[c].result.threads = 2
        /\ \E t \in ThreadsOf(c) : FirstFetchFailed(t) /\ Len(GetsOf(th[t].calls[1].log)) = MAX_RETRIES
        /\ \E t \in ThreadsOf(c) : ~FirstFetchFailed(t)

(***************************************************************************)
(* Parse failures.                                                         *)
(***************************************************************************)
\* C13: a parse or extraction failure on malformed markup of a listing page
\* or of a thread page is caught inside the task and degrades to an empty
\* result: no thread task and no company task ends with an exception, and the
\* gather of main is never aborted.
C13_ParseFailureContained ==
    /\ \A c \in Companies : co[c].pc # "raised"
    /\ \A t \in Threads : th[t].pc # "raised"
    /\ mainpc # "raised"

(***************************************************************************)
(* The final result list of main.                                          *)
(***************************************************************************)
\* the listing fetch of company c returned
ListingReturned(c) == Len(co[c].calls) >= 1

\* the companies whose listing fetch returned None
ListingNull == {c \in Companies : ListingReturned(c) /\ co[c].calls[1].ret = None}

\* the companies whose listing fetch returned the text of a 200 response
ListingFetched == {c \in Companies : ListingReturned(c) /\ co[c].calls[1].ret # None}

\* the entries of the final list that are the result of company c
EntriesOf(c) == {i \in 1..Len(results) : results[i].name = companies[c].name}

\* what company c reports, from its own listing and its own threads alone
OwnResult(c) ==
    IF co[c].threads = 0 THEN ZeroResult(companies[c].name)
    ELSE Rollup(companies[c].name, ThreadTexts(c))

\* C14: a company whose listing fetch returns None yields no result and is
\* absent from the final list; the final list holds exactly the companies
\* whose listing fetch succeeded, each once, and the result of each is that of
\* its own listing and threads, whatever happened to the failed company.
C14_ListedIffFetched ==
    /\ \A c \in ListingNull : co[c].pc = "done" => co[c].result = None
    /\ mainpc = "done" =>
          /\ \A c \in ListingNull : EntriesOf(c) = {}
          /\ \A c \in ListingFetched :
                /\ Cardinality(EntriesOf(c)) = 1
                /\ \A i \in EntriesOf(c) : results[i] = OwnResult(c)
          /\ Len(results) = Cardinality(ListingFetched)

\* C15: a company whose listing fetch succeeded and none of whose threads
\* passes the recency filter returns a result with thread count 0, zero
\* counts and percentages and the neutral label, not None and not an
\* exception, and no thread of it is fetched.
C15_ZeroResult ==
    \A c \in ListingFetched : Len(Retained(c)) = 0 =>
        /\ co[c].pc \in {"done", "cancelled"}
        /\ ThreadsOf(c) = {}
        /\ co[c].pc = "done" =>
              /\ co[c].result # None
              /\ co[c].result.threads = 0
              /\ co[c].result.pos = 0 /\ co[c].result.neg = 0 /\ co[c].result.neu = 0
              /\ co[c].result.pos_pct = 0 /\ co[c].result.neg_pct = 0
              /\ co[c].result.overall = "NEUTR"

(***************************************************************************)
(* The recency filter of the listing.                                      *)
(***************************************************************************)
\* the rows of the listing of company c whose date parses and is on or after
\* the cutoff
RecentRows(c) ==
    SelectSeq(co[c].calls[1].ret.rows,
              LAMBDA row : row.hasDate /\ parse_thread_date(row.date).ok
                                       /\ parse_thread_date(row.date).t >= DATE_LIMIT)

\* C16: a row of the listing is retained as a thread to crawl if and only if
\* its date parses and the parsed date is on or after the cutoff: the thread
\* tasks of a company are those of the rows with such a date, in their order,
\* and a row whose date is missing or does not parse is never fetched.
C16_RetainedIffRecent ==
    \A c \in ListingFetched :
        /\ co[c].threads = Len(RecentRows(c))
        /\ \A i \in 1..co[c].threads :
              th[<<c, i>>].url = urljoin(BANKIER_BASE_URL, RecentRows(c)[i].href)

(***************************************************************************)
(* extract_posts_from_html.                                                *)
(***************************************************************************)
\* the pages that the thread tasks passed to extract_posts_from_html
ThreadPages ==
    {page \in UNION {{th[t].calls[i].ret : i \in 1..Len(th[t].calls)} : t \in Threads} :
        ~Falsy(page)}

\* position p of the traversal of a page: selector after selector, and under
\* one selector node after node in document order
SelectorAt(html, p) == Selectors[((p - 1) \div Len(html.nodes)) + 1]

NodeAt(html, p) == html.nodes[((p - 1) % Len(html.nodes)) + 1]

Traversal(html) == 1..(Len(Selectors) * Len(html.nodes))

\* the normalised text of the candidate at position p; "" where the selector
\* does not match the node or the noise filter drops its text
CandidateAt(html, p) ==
    IF SelectorAt(html, p) \in NodeAt(html, p).cls /\ NotNoise(NodeAt(html, p).text)
    THEN Strip(CollapseWs(NodeAt(html, p).text))
    ELSE ""

\* the first position of the traversal at which text e is a candidate
FirstAt(cands, e) ==
    CHOOSE p \in DOMAIN cands : cands[p] = e /\ \A q \in 1..(p - 1) : cands[q] # e

\* the entries of out are pairwise different after normalisation, each is a
\* candidate, they stand in first-seen order, and every candidate is there
DedupedInOrder(html, out) ==
    Once([p \in Traversal(html) |-> CandidateAt(html, p)], LAMBDA cands :
        /\ \A i, j \in 1..Len(out) :
              i < j => /\ Strip(CollapseWs(out[i])) # Strip(CollapseWs(out[j]))
                       /\ FirstAt(cands, out[i]) < FirstAt(cands, out[j])
        /\ \A i \in 1..Len(out) : out[i] # "" /\ \E p \in DOMAIN cands : cands[p] = out[i]
        /\ \A p \in DOMAIN cands :
              cands[p] # "" => Cardinality({i \in 1..Len(out) : out[i] = cands[p]}) = 1)

\* C17: for every page, the list extract_posts_from_html returns has entries
\* that are pairwise different after whitespace normalisation (runs of
\* whitespace collapsed, ends trimmed), in first-seen order (selector order,
\* then document order), and a text that several selectors match is in it once.
C17_DedupedInOrder ==
    \A html \in ThreadPages :
        Once(extract_posts_from_html(html), LAMBDA out : DedupedInOrder(html, out))

\* a page was extracted on which a node is matched by two selectors, two nodes
\* differ in whitespace only, and document order is not first-seen order
C17_Witness ==
    \E html \in ThreadPages :
        /\ \E i \in 1..Len(html.nodes) : Cardinality(html.nodes[i].cls) = 2
        /\ \E i, j \in 1..Len(html.nodes) :
              /\ html.nodes[i].text # html.nodes[j].text
              /\ Strip(CollapseWs(html.nodes[i].text)) = Strip(CollapseWs(html.nodes[j].text))
        /\ extract_posts_from_html(html)[1] = html.nodes[2].text
        /\ Len(extract_posts_from_html(html)) = 4

\* the nodes of a page that some selector matches
Matched(html) == {i \in 1..Len(html.nodes) : \E k \in 1..Len(Selectors) : Selectors[k] \in html.nodes[i].cls}

\* C18: the noise filter keeps a candidate text exactly when it is at least
\* 15 characters long: no entry of the returned list is shorter than 15
\* characters, and a candidate of 15 or more characters is in the list (once,
\* under its normalised form: it is dropped only as a duplicate).
C18_NoiseThreshold ==
    \A html \in ThreadPages :
        Once(extract_posts_from_html(html), LAMBDA out :
            /\ \A i \in 1..Len(out) : Len(out[i]) >= 15
            /\ \A n \in Matched(html) :
                  Len(html.nodes[n].text) >= 15 =>
                      \E i \in 1..Len(out) : out[i] = Strip(CollapseWs(html.nodes[n].text)))

(***************************************************************************)
(* analyze_sentiment.                                                      *)
(***************************************************************************)
\* the thread tasks that returned their text
Scored == {t \in Threads : th[t].pc = "done"}

\* the keywords of a set that are substrings of the lowercased text
Present(keywords, text) ==
    Once(Lower(text), LAMBDA lowered : {word \in keywords : Contains(lowered, word)})

Pos(text) == Cardinality(Present(positive_keywords, text))

Neg(text) == Cardinality(Present(negative_keywords, text))

\* the two counts of the text of every scored thread
Counts == [t \in Scored |-> [pos |-> Pos(th[t].result), neg |-> Neg(th[t].result)]]

\* the label and the score of a text with pos positive and neg negative keywords
LabelledByCounts(s, pos, neg) ==
    /\ s.label = "POZYTYWNY" <=> pos > neg
    /\ s.label = "NEGATYWNY" <=> neg > pos
    /\ s.label = "NEUTRALNY" <=> pos = neg
    /\ (pos = 1 /\ neg = 0) => s.score = 1
    /\ pos = neg => s.score = 0

\* C19: analyze_sentiment labels a text POZYTYWNY iff more positive than
\* negative keywords are substrings of the lowercased text, NEGATYWNY iff more
\* negative than positive, NEUTRALNY iff as many; one positive keyword and no
\* negative one give POZYTYWNY with score 1, equal counts and the empty text
\* give NEUTRALNY with score 0; process_company counts these labels.
C19_LabelByCounts ==
    \E n \in {Counts} :
        /\ \A t \in Scored :
              \E s \in {analyze_sentiment(th[t].result)} :
                 /\ LabelledByCounts(s, n[t].pos, n[t].neg)
                 /\ th[t].result = "" => s = [label |-> "NEUTRALNY", score |-> 0]
        /\ \A c \in Companies : (co[c].pc = "done" /\ FannedOut(c)) =>
              /\ co[c].result.pos = Cardinality({t \in ThreadsOf(c) : n[t].pos > n[t].neg})
              /\ co[c].result.neg = Cardinality({t \in ThreadsOf(c) : n[t].neg > n[t].pos})
              /\ co[c].result.neu = Cardinality({t \in ThreadsOf(c) : n[t].pos = n[t].neg})

\* a company has counted a thread with one positive keyword and no negative
\* one and a thread with more negative than positive keywords
C19_Witness ==
    \E c \in Companies : \E n \in {Counts} :
        /\ co[c].pc = "done" /\ FannedOut(c)
        /\ \E t \in ThreadsOf(c) : n[t].pos = 1 /\ n[t].neg = 0
                                     /\ th[t].result # Lower(th[t].result)
        /\ \E t \in ThreadsOf(c) : n[t].neg > n[t].pos
        /\ co[c].result.pos = 1 /\ co[c].result.neg = 1

\* C20 as stated: the score analyze_sentiment returns is the number of
\* positive keywords present minus the number of negative keywords present,
\* for every text, so that more negative than positive keywords give a
\* negative score.
C20_ScoreIsDifference ==
    \E n \in {Counts} :
        \A t \in Scored : analyze_sentiment(th[t].result).score = n[t].pos - n[t].neg

\* C20 amended: the score is the absolute difference of the two counts, the
\* positive minus the negative count under POZYTYWNY and the negative minus
\* the positive count under NEGATYWNY, so that more negative than positive
\* keywords give NEGATYWNY with a positive score.
C20_ScoreIsMagnitude ==
    \E n \in {Counts} :
        \A t \in Scored :
            \E s \in {analyze_sentiment(th[t].result)} :
                /\ n[t].pos >= n[t].neg => s.score = n[t].pos - n[t].neg
                /\ n[t].neg > n[t].pos =>
                      s.label = "NEGATYWNY" /\ s.score = n[t].neg - n[t].pos /\ s.score > 0

\* a thread text with both kinds of keywords, more of them negative, was scored
C20_Witness ==
    \E n \in {Counts} : \E t \in Scored :
        /\ n[t].pos > 0
        /\ n[t].neg > n[t].pos + 1
        /\ analyze_sentiment(th[t].result).score = n[t].neg - n[t].pos

(***************************************************************************)
(* The rollup label of a company.                                          *)
(***************************************************************************)
\* pos > 1.5 * neg, in integers
Outweighs(x, y) == 2 * x > 3 * y

\* C21: for all counts pos, neg >= 0 of thread labels the label of the
\* company is BULLISH if pos > 1.5 neg; otherwise BEARISH if neg > 1.5 pos;
\* otherwise +POZYT if pos > neg, -NEGAT if neg > pos, and NEUTR exactly when
\* pos = neg.  Exactly one label applies, and the two strong conditions never
\* hold together.
C21_RollupLadder ==
    scoring.fn = "rollup" =>
        \E pos \in {scoring.arg[1]} : \E neg \in {scoring.arg[2]} :
        \E label \in {scoring.ret.overall} :
            /\ scoring.ret.pos = pos /\ scoring.ret.neg = neg
            /\ label \in {"BULLISH", "BEARISH", "+POZYT", "-NEGAT", "NEUTR"}
            /\ label = "BULLISH" <=> Outweighs(pos, neg)
            /\ label = "BEARISH" <=> (~Outweighs(pos, neg) /\ Outweighs(neg, pos))
            /\ label = "+POZYT" <=> (~Outweighs(pos, neg) /\ ~Outweighs(neg, pos) /\ pos > neg)
            /\ label = "-NEGAT" <=> (~Outweighs(pos, neg) /\ ~Outweighs(neg, pos) /\ neg > pos)
            /\ label = "NEUTR" <=> pos = neg
            /\ ~(Outweighs(pos, neg) /\ Outweighs(neg, pos))

\* three positive and two negative threads were rolled up: a majority that
\* is not a strong one
C21_Witness ==
    /\ scoring.fn = "rollup"
    /\ scoring.arg[1] = 3 /\ scoring.arg[2] = 2
    /\ scoring.ret.overall = "+POZYT"

(***************************************************************************)
(* The fundamental score.                                                  *)
(***************************************************************************)
\* the members of a keyword list
Members(keywords) == {keywords[i] : i \in 1..Len(keywords)}

\* positiveHits - negativeHits of a category: the keywords present, each once
NetHits(category, text) ==
    Cardinality(Present(Members(category.positive_keywords), text))
    - Cardinality(Present(Members(category.negative_keywords), text))

\* the weights of a dict of categories
WeightsOf(categories) == [k \in 1..Len(categories) |-> categories[k].weight]

\* C22: analyze_fundamentals gives every one of the six categories the net
\* score positiveHits - negativeHits, a keyword counting once however often
\* it occurs in the lowercased text, and the weighted score net score x
\* weight; the total is the sum of the weighted scores; the weights are 0.25,
\* 0.20, 0.20, 0.15, 0.10, 0.10 and sum to 1.0; with two categories of weight
\* 0.5, one positive hit in the first and one negative hit in the second give
\* total 0 and the rating NEUTRAL.
C22_WeightedTotal ==
    scoring.fn = "fundamentals" =>
        \E categories \in {scoring.arg.categories} : \E text \in {scoring.arg.text} :
        \E analysis \in {scoring.ret.analysis} :
            /\ text # "" =>
                  /\ Len(analysis.categories) = Len(categories)
                  /\ \A k \in 1..Len(categories) :
                        /\ analysis.categories[k].net_score = NetHits(categories[k], text)
                        /\ analysis.categories[k].weighted_score =
                              FMulInt(NetHits(categories[k], text), categories[k].weight)
                  /\ analysis.total_score \in
                        PySum([k \in 1..Len(categories) |-> analysis.categories[k].weighted_score])
            /\ text = "" => analysis.total_score = FloatZero
            /\ WeightsOf(FUNDAMENTAL_CATEGORIES) =
                  <<Weight025, Weight020, Weight020, Weight015, Weight010, Weight010>>
            /\ PySum(WeightsOf(FUNDAMENTAL_CATEGORIES)) = {FMulInt(4, Weight025)}
            /\ (/\ categories = TwoCategories /\ text # ""
                /\ [k \in 1..2 |-> analysis.categories[k].positive_count] = <<1, 0>>
                /\ [k \in 1..2 |-> analysis.categories[k].negative_count] = <<0, 1>>)
               => analysis.total_score = FloatZero /\ scoring.ret.rating = "NEUTRAL"

\* a text with one keyword three times was analysed over the six categories,
\* and counted one hit
C22_Witness ==
    /\ scoring.fn = "fundamentals"
    /\ scoring.arg.categories = FUNDAMENTAL_CATEGORIES
    /\ scoring.arg.text # ""
    /\ \E k \in 1..Len(FUNDAMENTAL_CATEGORIES) :
          /\ scoring.ret.analysis.categories[k].net_score = 1
          /\ \E i \in 1..Len(FUNDAMENTAL_CATEGORIES[k].positive_keywords) :
                CountOccurrences(<<FUNDAMENTAL_CATEGORIES[k].positive_keywords[i]>>,
                                 Lower(scoring.arg.text), 1) = 3
    /\ scoring.ret.analysis.total_score = Weight015

(***************************************************************************)
(* The rating bands.                                                       *)
(***************************************************************************)
Ratings ==
    <<"VERY BEARISH", "BEARISH", "SLIGHTLY BEARISH", "NEUTRAL",
      "SLIGHTLY BULLISH", "BULLISH", "VERY BULLISH">>

\* the place of a rating on the ladder, 1 the most bearish
Rank(rating) == CHOOSE i \in 1..Len(Ratings) : Ratings[i] = rating

\* lo <= x < hi
InRightOpen(x, lo, hi) == ~FLess(x, lo) /\ FLess(x, hi)

\* lo < x <= hi
InLeftOpen(x, lo, hi) == FLess(lo, x) /\ ~FLess(hi, x)

\* C23: get_fundamental_rating maps every score to exactly one of seven
\* bands: >= 3.0 very bullish, [1.5, 3.0) bullish, [0.5, 1.5) slightly
\* bullish, (-0.5, 0.5) neutral, (-1.5, -0.5] slightly bearish, (-3.0, -1.5]
\* bearish, <= -3.0 very bearish; the bands are exhaustive and exclusive,
\* monotone in the score, and mirrored when the score is negated.
C23_SevenBands ==
    scoring.fn = "rating" =>
        \E score \in {scoring.arg} : \E rating \in {scoring.ret} :
            /\ \E i \in 1..Len(Ratings) : Ratings[i] = rating
            /\ rating = "VERY BULLISH" <=> ~FLess(score, Float30)
            /\ rating = "BULLISH" <=> InRightOpen(score, Float15, Float30)
            /\ rating = "SLIGHTLY BULLISH" <=> InRightOpen(score, Float05, Float15)
            /\ rating = "NEUTRAL" <=> (FLess(FNeg(Float05), score) /\ FLess(score, Float05))
            /\ rating = "SLIGHTLY BEARISH" <=> InLeftOpen(score, FNeg(Float15), FNeg(Float05))
            /\ rating = "BEARISH" <=> InLeftOpen(score, FNeg(Float30), FNeg(Float15))
            /\ rating = "VERY BEARISH" <=> ~FLess(FNeg(Float30), score)
            /\ \A other \in RatingScores :
                  FLess(other, score) => Rank(get_fundamental_rating(other)) <= Rank(rating)
            /\ Rank(get_fundamental_rating(FNeg(score))) = Len(Ratings) + 1 - Rank(rating)

\* the score 0.5, the closed end of a band, was rated
C23_Witness ==
    /\ scoring.fn = "rating"
    /\ scoring.arg = Float05
    /\ scoring.ret = "SLIGHTLY BULLISH"
    /\ get_fundamental_rating(Below(Float05)) = "NEUTRAL"
    /\ get_fundamental_rating(FNeg(Float05)) = "SLIGHTLY BEARISH"

(***************************************************************************)
(* The posts and the pages of one thread crawl.                            *)
(***************************************************************************)
\* no two places of a sequence hold the same element
Distinct(s) == \A i, j \in 1..Len(s) : i # j => s[i] # s[j]

\* C24: across all pages fetched in one thread crawl, the accumulated posts,
\* which extract_posts_from_html returns whitespace-normalised, hold no two
\* equal entries: the posts are deduplicated per thread, not only per page.
C24_NoRepeatAcrossPages ==
    \A t \in Threads : Distinct(th[t].posts)

(***************************************************************************)
(* The accounting of the gate.                                             *)
(***************************************************************************)
\* a task that is inside its `async with sem`
InsideGate(task) == task.pc \in {"fetch", "polite"}

\* the tasks, by the names they hold slots under
TaskAt(id) == IF id[2] = 0 THEN co[id[1]] ELSE th[id]

\* every task has ended: returned, raised or been cancelled
AllFinished ==
    /\ \A c \in Companies : co[c].pc \in {"done", "raised", "cancelled"}
    /\ \A t \in Threads : th[t].pc \in {"done", "raised", "cancelled"}

\* C25: every acquired slot is released on every exit path: the slots held
\* are those of the tasks inside their `async with`, their number stays
\* within 0..MAX_CONCURRENT_REQUESTS, and it is 0 once all tasks have ended.
C25_SlotsReleased ==
    /\ Cardinality(held) \in 0..MAX_CONCURRENT_REQUESTS
    /\ sem = MAX_CONCURRENT_REQUESTS - Cardinality(held)
    /\ \A id \in held : InsideGate(TaskAt(id))
    /\ \A c \in Companies : InsideGate(co[c]) => CoId(c) \in held
    /\ \A t \in Threads : InsideGate(th[t]) => t \in held
    /\ AllFinished => held = {} /\ sem = MAX_CONCURRENT_REQUESTS

\* a run that ended after a thread returned its title alone, its first fetch
\* having failed inside the gate
C25_Witness ==
    /\ AllFinished /\ mainpc = "done" /\ held = {}
    /\ \E t \in Threads :
          /\ th[t].pc = "done" /\ Len(th[t].calls) = 1
          /\ th[t].calls[1].ret = None
          /\ th[t].result = TitleOnly(th[t].title)

\* C26: no task waits for a slot, or awaits its thread tasks, while it holds
\* a slot: process_company has released its slot before it fans out, so a
\* slot is only ever held by a task that is fetching or in its politeness
\* sleep, and the thread tasks of a company can acquire.
C26_NoHoldAndWait ==
    /\ \A c \in Companies : co[c].pc \in {"acquire", "gather"} => CoId(c) \notin held
    /\ \A t \in Threads : th[t].pc = "acquire" => t \notin held
    /\ \A t \in Threads : CoId(t[1]) \notin held
    /\ \A id \in held : TaskAt(id).pc \notin {"acquire", "gather"}

\* the gate is full while a company awaits its thread tasks and one of them
\* waits for a slot
C26_Witness ==
    /\ sem = 0
    /\ \E c \in Companies :
          /\ co[c].pc = "gather"
          /\ \E t \in ThreadsOf(c) : th[t].pc = "acquire"
          /\ \E t \in ThreadsOf(c) : t \in held

\* the URLs thread t has called fetch_page for, the call under way included
Fetched(t) ==
    [k \in 1..Len(th[t].calls) |-> th[t].calls[k].url]
        \o (IF th[t].pc = "fetch" THEN <<th[t].fp.url>> ELSE <<>>)

\* C27: within one thread crawl no URL is fetched more than once: the
\* additional pages are pairwise distinct and each differs from the first
\* page, whatever links the pagination block holds.
C27_NoUrlTwice ==
    \A t \in Threads : Distinct(Fetched(t))

(***************************************************************************)
(* The sleeps of fetch_page and of the page loop.                          *)
(***************************************************************************)
\* C28: inside fetch_page every backoff sleep is followed by another GET
\* attempt: the call never sleeps after its final attempt, whether that
\* attempt ended in a 503 or in an exception.
C28_SleepThenGet ==
    /\ \A r \in FinishedCalls : \A i \in 1..Len(r.log) :
          r.log[i].ev = "sleep" => i < Len(r.log) /\ r.log[i + 1].ev = "get"
    /\ \A fp \in OpenCalls : fp.pc = "sleep" => GetsIssued(fp) < MAX_RETRIES

\* thread t takes a step in which its fetch of an additional page returns
\* without a document
PageFetchFails(t) ==
    /\ th[t].pc = "fetch" /\ th[t].next >= 1
    /\ Len(th'[t].calls) = Len(th[t].calls) + 1
    /\ Falsy(th'[t].calls[Len(th'[t].calls)].ret)

\* C29: after every additional-page fetch, whatever its outcome, a
\* politeness sleep occurs before the next page fetch of the thread starts;
\* a failed additional-page fetch does not end the crawl: the posts gathered
\* so far are kept and the pages that remain are still attempted.
C29_PoliteAfterEveryPage ==
    [][\A t \in Threads :
          /\ (th[t].next >= 1 /\ th'[t].next = th[t].next + 1) => th[t].pc = "polite"
          /\ PageFetchFails(t) =>
                /\ th'[t].posts = th[t].posts
                /\ (th[t].next < Len(th[t].pages) /\ BelowPostCap(th[t].posts))
                      => th'[t].pc \in {"polite", "fetch"}]_vars

(***************************************************************************)
(* Keywords and the case of the text.                                      *)
(***************************************************************************)
\* text contains keyword when the case of both is ignored
ContainsIgnoringCase(text, keyword) == Contains(Lower(text), Lower(keyword))

\* the keywords of a set, and the places of a list, that text contains so
HitsIgnoringCase(keywords, text) ==
    Cardinality({word \in keywords : ContainsIgnoringCase(text, word)})

ListHitsIgnoringCase(keywords, text) ==
    Cardinality({i \in 1..Len(keywords) : ContainsIgnoringCase(text, keywords[i])})

\* C30: keyword matching is case-insensitive for every configured keyword:
\* a keyword of the sentiment sets or of a fundamental category list that
\* the text contains ignoring case is counted as a hit.
C30_EveryKeywordMatchable ==
    /\ scoring.fn = "sentiment" /\ scoring.arg # "" =>
          scoring.ret = SentimentOf(HitsIgnoringCase(positive_keywords, scoring.arg),
                                    HitsIgnoringCase(negative_keywords, scoring.arg))
    /\ scoring.fn = "fundamentals" /\ scoring.arg.text # "" =>
          \E categories \in {scoring.arg.categories} : \E text \in {scoring.arg.text} :
              \A k \in 1..Len(categories) :
                  /\ scoring.ret.analysis.categories[k].positive_count
                        = ListHitsIgnoringCase(categories[k].positive_keywords, text)
                  /\ scoring.ret.analysis.categories[k].negative_count
                        = ListHitsIgnoringCase(categories[k].negative_keywords, text)

====
